---- MODULE Spec2Model ----
(***************************************************************************)
(* A model of the relational data manager: typed values and schemas        *)
(* (rdbms/types.py), the hash index, Table and Database of the storage     *)
(* layer (rdbms/storage.py) and the statement handlers of the execution    *)
(* engine (rdbms/engine.py).                                               *)
(*                                                                         *)
(* Python values are records [t, v]: t is the runtime type ("int", "str",  *)
(* "bool", "none") and v a number (a string is identified by its code, and *)
(* codes are ordered as the strings are).  A dict is a function whose      *)
(* DOMAIN is its key set.  A raised exception is a non-empty exc field.    *)
(***************************************************************************)
EXTENDS Integers, Sequences, FiniteSets, TLC

VARIABLES tables, disk, last, insertsOnly, created, call

vars == <<tables, disk, last, insertsOnly, created, call>>

\* ------------------------------------------------------------------ bounds
MaxRows == 2
MaxNextId == 3

\* ------------------------------------------------------------ Python values
None == [t |-> "none", v |-> 0]

IntV(n) == [t |-> "int", v |-> n]

TextV(n) == [t |-> "str", v |-> n]

BoolV(b) == [t |-> "bool", v |-> IF b THEN 1 ELSE 0]

IsNumber(a) == a.t \in {"int", "bool"}

\* a == b in Python: bool is a subclass of int, so True == 1
PyEq(a, b) ==
    \/ IsNumber(a) /\ IsNumber(b) /\ a.v = b.v
    \/ a.t = "str" /\ b.t = "str" /\ a.v = b.v
    \/ a.t = "none" /\ b.t = "none"

\* a < b and friends raise TypeError unless both are numbers or both strings
Orderable(a, b) ==
    \/ IsNumber(a) /\ IsNumber(b)
    \/ a.t = "str" /\ b.t = "str"

\* the key a dict files a value under: equal values hash alike
HashKey(a) == IF a.t = "bool" THEN IntV(a.v) ELSE a

EmptyDict == [c \in {} |-> None]

\* dict.get(key): None when the key is missing
DictGet(d, key) == IF key \in DOMAIN d THEN d[key] ELSE None

\* d[key] = value
DictSet(d, key, value) ==
    [c \in (DOMAIN d) \cup {key} |-> IF c = key THEN value ELSE d[c]]

\* dict == dict: same keys, equal values
DictEq(d, e) ==
    /\ DOMAIN d = DOMAIN e
    /\ \A c \in DOMAIN d : PyEq(d[c], e[c])

\* ------------------------------------------------------------------- types
\* the members of DataType
DataTypes == {"INT", "TEXT", "BOOLEAN"}

Column(name, data_type, primary_key, unique, nullable) ==
    [name |-> name, data_type |-> data_type, primary_key |-> primary_key,
     unique |-> unique, nullable |-> nullable]

NoColumn == Column("", "", FALSE, FALSE, TRUE)

ColumnValidate(col, value) ==
    IF value.t = "none" /\ col.nullable THEN TRUE
    ELSE IF value.t = "none" THEN FALSE
    ELSE IF col.data_type = "INT" THEN value.t \in {"int", "bool"}
    ELSE IF col.data_type = "TEXT" THEN value.t = "str"
    ELSE IF col.data_type = "BOOLEAN" THEN value.t = "bool"
    ELSE FALSE

Schema(table_name, columns) == [table_name |-> table_name, columns |-> columns]

\* the columns are walked in order and the first match is returned
FirstWhere(columns, matches) ==
    IF matches # {}
    THEN columns[CHOOSE i \in matches : \A j \in matches : i <= j]
    ELSE NoColumn

GetColumn(schema, name) ==
    FirstWhere(schema.columns,
               {i \in 1..Len(schema.columns) : schema.columns[i].name = name})

\* NoColumn stands for the None the method returns
GetPrimaryKeyColumn(schema) ==
    FirstWhere(schema.columns,
               {i \in 1..Len(schema.columns) : schema.columns[i].primary_key})

RowGet(row, column_name) == DictGet(row, column_name)

RowValidate(row, schema) ==
    \A i \in 1..Len(schema.columns) :
        LET col == schema.columns[i] IN
        IF col.name \notin DOMAIN row THEN col.nullable
        ELSE ColumnValidate(col, row[col.name])

\* Row is a dataclass: rows are equal when their values (and schema) are
RowEq(r, s) == DictEq(r, s)

\* ------------------------------------------------------------- HashIndex
\* index: Dict[key, Set[row_id]]
EmptyIndex == [k \in {} |-> {}]

IndexAdd(index, key, row_id) ==
    LET k == HashKey(key)
        old == IF k \in DOMAIN index THEN index[k] ELSE {}
    IN [x \in (DOMAIN index) \cup {k} |->
            IF x = k THEN old \cup {row_id} ELSE index[x]]

\* mutant: a key left without ids stays in the dict
IndexRemoveKeepsKey(index, key, row_id) ==
    LET k == HashKey(key) IN
    IF k \in DOMAIN index THEN [index EXCEPT ![k] = @ \ {row_id}] ELSE index

IndexRemove(index, key, row_id) ==
    LET k == HashKey(key) IN
    IF k \in DOMAIN index
    THEN LET left == index[k] \ {row_id} IN
         IF left = {}
         THEN [x \in (DOMAIN index) \ {k} |-> index[x]]
         ELSE [index EXCEPT ![k] = left]
    ELSE index

IndexLookup(index, key) ==
    LET k == HashKey(key) IN
    IF k \in DOMAIN index THEN index[k] ELSE {}

\* ------------------------------------------------------------------ Table
\* Table.__init__: no rows, an index for the primary key (left empty and
\* unused when the schema has none) and one per unique column
NewTable(schema) ==
    [schema |-> schema,
     rows |-> <<>>,
     next_row_id |-> 0,
     primary_key_index |-> EmptyIndex,
     unique_indexes |->
        [c \in {schema.columns[i].name : i \in
                    {j \in 1..Len(schema.columns) : schema.columns[j].unique}}
            |-> EmptyIndex]]

HasPrimaryKey(schema) == GetPrimaryKeyColumn(schema) # NoColumn

Returned(tbl, ret) == [exc |-> "", tbl |-> tbl, ret |-> ret]

Raised(tbl, exc) == [exc |-> exc, tbl |-> tbl, ret |-> 0]

\* type(value).__name__
TypeName(value) ==
    IF value.t = "none" THEN "NoneType"
    ELSE IF value.t = "int" THEN "int"
    ELSE IF value.t = "bool" THEN "bool"
    ELSE IF value.t = "float" THEN "float"
    ELSE "str"

\* the positions, in schema order, of the non-nullable columns values lacks
MissingColumns(schema, values) ==
    SelectSeq([i \in 1..Len(schema.columns) |-> i],
              LAMBDA i : /\ schema.columns[i].name \notin DOMAIN values
                         /\ ~schema.columns[i].nullable)

\* ', '.join(f"{col.name} ({col.data_type.value})") over the first n of them
RECURSIVE MissingColumnsText(_, _, _)
MissingColumnsText(schema, missing, n) ==
    IF n = 0 THEN ""
    ELSE LET col == schema.columns[missing[n]] IN
         (IF n = 1 THEN "" ELSE MissingColumnsText(schema, missing, n - 1) \o ", ")
         \o col.name \o " (" \o col.data_type \o ")"

\* the positions of the columns whose value col.validate refuses
MistypedColumns(schema, values) ==
    {i \in 1..Len(schema.columns) :
        /\ schema.columns[i].name \in DOMAIN values
        /\ ~ColumnValidate(schema.columns[i], values[schema.columns[i].name])}

\* mutant: the types are looked at before the missing columns
InsertValidationErrorTypesFirst(schema, values) ==
    LET missing == MissingColumns(schema, values)
        mistyped == MistypedColumns(schema, values)
    IN IF mistyped # {}
       THEN LET col == schema.columns[CHOOSE i \in mistyped : \A j \in mistyped : i <= j] IN
            "Invalid type for column '" \o col.name \o "': expected " \o col.data_type
            \o ", got " \o TypeName(values[col.name])
       ELSE IF missing # <<>>
       THEN "Missing required column(s): " \o MissingColumnsText(schema, missing, Len(missing))
       ELSE ""

\* the message of the ValueError raised when row.validate() is false
InsertValidationError(schema, values) ==
    LET missing == MissingColumns(schema, values)
        mistyped == MistypedColumns(schema, values)
    IN IF missing # <<>>
       THEN "Missing required column(s): " \o MissingColumnsText(schema, missing, Len(missing))
       ELSE IF mistyped # {}
       THEN LET col == schema.columns[CHOOSE i \in mistyped : \A j \in mistyped : i <= j] IN
            "Invalid type for column '" \o col.name \o "': expected " \o col.data_type
            \o ", got " \o TypeName(values[col.name])
       ELSE ""

\* the first unique column, in schema order, whose index already holds the value
UniqueViolated(tbl, values) ==
    \E i \in 1..Len(tbl.schema.columns) :
        LET col == tbl.schema.columns[i] IN
        /\ col.unique
        /\ col.name \in DOMAIN values
        /\ IndexLookup(tbl.unique_indexes[col.name], values[col.name]) # {}

InsertIntoUniqueIndexes(tbl, values, row_id) ==
    [c \in DOMAIN tbl.unique_indexes |->
        IF c \in DOMAIN values
        THEN IndexAdd(tbl.unique_indexes[c], values[c], row_id)
        ELSE tbl.unique_indexes[c]]

\* mutant: ids counted from 1
InsertRowIdOneBased(tbl) == tbl.next_row_id + 1

\* the id a new row is filed under in the indexes, and reported
InsertRowId(tbl) == tbl.next_row_id

TableInsert(tbl, values) ==
    LET pk_col == GetPrimaryKeyColumn(tbl.schema)
        has_pk == pk_col # NoColumn /\ pk_col.name \in DOMAIN values
        row_id == InsertRowId(tbl)
    IN
    IF ~RowValidate(values, tbl.schema) /\ InsertValidationError(tbl.schema, values) # ""
    THEN Raised(tbl, InsertValidationError(tbl.schema, values))
    ELSE IF has_pk /\ IndexLookup(tbl.primary_key_index, values[pk_col.name]) # {}
    THEN Raised(tbl, "Primary key already exists")
    ELSE IF UniqueViolated(tbl, values)
    THEN Raised(tbl, "Unique constraint violated")
    ELSE Returned(
            [tbl EXCEPT
                !.next_row_id = tbl.next_row_id + 1,
                !.rows = Append(tbl.rows, values),
                !.primary_key_index =
                    IF has_pk
                    THEN IndexAdd(tbl.primary_key_index, values[pk_col.name], row_id)
                    ELSE tbl.primary_key_index,
                !.unique_indexes = InsertIntoUniqueIndexes(tbl, values, row_id)],
            row_id)

\* get_by_primary_key takes row_ids[0] of list(set): any member of the set.
\* Each outcome is the row found, None, or the IndexError of rows[row_id].
GetByPrimaryKey(tbl, key) ==
    IF ~HasPrimaryKey(tbl.schema)
    THEN {[kind |-> "None", row |-> EmptyDict]}
    ELSE LET row_ids == IndexLookup(tbl.primary_key_index, key) IN
         IF row_ids = {}
         THEN {[kind |-> "None", row |-> EmptyDict]}
         ELSE {IF id + 1 \in 1..Len(tbl.rows)
               THEN [kind |-> "Row", row |-> tbl.rows[id + 1]]
               ELSE [kind |-> "IndexError", row |-> EmptyDict] : id \in row_ids}

TableScan(tbl) == tbl.rows

\* "T", "F", or "E" when the comparison raises TypeError
EvaluateCondition(row_value, operator, value) ==
    LET B(b) == IF b THEN "T" ELSE "F" IN
    IF operator = "=" THEN B(PyEq(row_value, value))
    ELSE IF operator = "!=" THEN B(~PyEq(row_value, value))
    ELSE IF operator \in {"<", ">", "<=", ">="} /\ ~Orderable(row_value, value) THEN "E"
    ELSE IF operator = "<" THEN B(row_value.v < value.v)
    ELSE IF operator = ">" THEN B(row_value.v > value.v)
    ELSE IF operator = "<=" THEN B(row_value.v <= value.v)
    ELSE IF operator = ">=" THEN B(row_value.v >= value.v)
    ELSE "F"

RowMatches(row, where) == EvaluateCondition(RowGet(row, where[1]), where[2], where[3])

\* the loop stops at the first comparison that raises
FilterRaises(rows, where) == \E i \in 1..Len(rows) : RowMatches(rows[i], where) = "E"

TableFilter(tbl, where) ==
    IF FilterRaises(tbl.rows, where)
    THEN Raised(tbl, "TypeError")
    ELSE Returned(tbl, SelectSeq(tbl.rows, LAMBDA row : RowMatches(row, where) = "T"))

\* updates is the SET dict in insertion order: a sequence of <<column, value>>
UpdatesHas(updates, name) == \E i \in 1..Len(updates) : updates[i][1] = name

UpdatesGet(updates, name) ==
    updates[CHOOSE i \in 1..Len(updates) : updates[i][1] = name][2]

\* mutant: the value assigned is not validated
AssignmentErrorUnvalidated(schema, key, value) ==
    IF GetColumn(schema, key) = NoColumn THEN "Column not found" ELSE ""

\* the message raised for one assignment of the loop, "" when it is applied
AssignmentError(schema, key, value) ==
    IF GetColumn(schema, key) = NoColumn THEN "Column not found"
    ELSE IF ~ColumnValidate(GetColumn(schema, key), value) THEN "Invalid value for column"
    ELSE ""

\* the loop over updates.items(): every assignment before the first one that
\* raises has already been written into the row
RECURSIVE ApplyUpdates(_, _, _)
ApplyUpdates(schema, values, updates) ==
    IF updates = <<>> THEN [exc |-> "", values |-> values]
    ELSE LET key == Head(updates)[1]
             value == Head(updates)[2]
         IN IF AssignmentError(schema, key, value) # ""
            THEN [exc |-> AssignmentError(schema, key, value), values |-> values]
            ELSE ApplyUpdates(schema, DictSet(values, key, value), Tail(updates))

\* remove the old entry and add the new one, both under row_index
Reindex(index, old_val, new_val, row_index) ==
    IF ~PyEq(old_val, new_val)
    THEN IndexAdd(IndexRemove(index, old_val, row_index), new_val, row_index)
    ELSE index

\* row_index is 0-based, as in the source
TableUpdate(tbl, row_index, updates) ==
    IF row_index < 0 \/ row_index >= Len(tbl.rows) THEN Raised(tbl, "Row not found")
    ELSE
    LET old_values == tbl.rows[row_index + 1]
        applied == ApplyUpdates(tbl.schema, old_values, updates)
        written == [tbl EXCEPT !.rows[row_index + 1] = applied.values]
        pk_col == GetPrimaryKeyColumn(tbl.schema)
    IN
    IF applied.exc # "" THEN Raised(written, applied.exc)
    ELSE Returned(
            [written EXCEPT
                !.primary_key_index =
                    IF pk_col # NoColumn /\ UpdatesHas(updates, pk_col.name)
                    THEN Reindex(tbl.primary_key_index,
                                 DictGet(old_values, pk_col.name),
                                 UpdatesGet(updates, pk_col.name), row_index)
                    ELSE tbl.primary_key_index,
                !.unique_indexes =
                    [c \in DOMAIN tbl.unique_indexes |->
                        IF UpdatesHas(updates, c)
                        THEN Reindex(tbl.unique_indexes[c], DictGet(old_values, c),
                                     UpdatesGet(updates, c), row_index)
                        ELSE tbl.unique_indexes[c]]],
            0)

RemoveAt(seq, i) == SubSeq(seq, 1, i - 1) \o SubSeq(seq, i + 1, Len(seq))

TableDelete(tbl, row_index) ==
    IF row_index < 0 \/ row_index >= Len(tbl.rows) THEN Raised(tbl, "Row not found")
    ELSE
    LET row == tbl.rows[row_index + 1]
        pk_col == GetPrimaryKeyColumn(tbl.schema)
    IN Returned(
            [tbl EXCEPT
                !.primary_key_index =
                    IF pk_col # NoColumn
                    THEN IndexRemove(tbl.primary_key_index,
                                     RowGet(row, pk_col.name), row_index)
                    ELSE tbl.primary_key_index,
                !.unique_indexes =
                    [c \in DOMAIN tbl.unique_indexes |->
                        IndexRemove(tbl.unique_indexes[c], RowGet(row, c), row_index)],
                !.rows = RemoveAt(tbl.rows, row_index + 1)],
            0)

\* ------------------------------------------------------------ persistence
\* json.dump of a value: a bool is written as true/false, never as a number
JsonDump(value) ==
    IF value.t = "none" THEN [j |-> "null", v |-> 0]
    ELSE IF value.t = "bool" THEN [j |-> IF value.v = 1 THEN "true" ELSE "false", v |-> 0]
    ELSE IF value.t = "int" THEN [j |-> "number", v |-> value.v]
    ELSE [j |-> "string", v |-> value.v]

\* mutant: every number is read back as a string
JsonLoadAsText(json) ==
    IF json.j = "null" THEN None
    ELSE IF json.j = "true" THEN BoolV(TRUE)
    ELSE IF json.j = "false" THEN BoolV(FALSE)
    ELSE TextV(json.v)

\* json.load of a value
JsonLoad(json) ==
    IF json.j = "null" THEN None
    ELSE IF json.j = "true" THEN BoolV(TRUE)
    ELSE IF json.j = "false" THEN BoolV(FALSE)
    ELSE IF json.j = "number" THEN IntV(json.v)
    ELSE TextV(json.v)

RowToJson(row) == [c \in DOMAIN row |-> JsonDump(row[c])]

RowFromJson(row_data) == [c \in DOMAIN row_data |-> JsonLoad(row_data[c])]

\* Schema.to_dict: the five fields of every column, in order
SchemaToDict(schema) ==
    [table_name |-> schema.table_name,
     columns |-> [i \in 1..Len(schema.columns) |->
        [name |-> schema.columns[i].name,
         data_type |-> schema.columns[i].data_type,
         primary_key |-> schema.columns[i].primary_key,
         unique |-> schema.columns[i].unique,
         nullable |-> schema.columns[i].nullable]]]

SchemaFromDict(data) ==
    Schema(data.table_name,
           [i \in 1..Len(data.columns) |->
                Column(data.columns[i].name, data.columns[i].data_type,
                       data.columns[i].primary_key, data.columns[i].unique,
                       data.columns[i].nullable)])

\* the document Table.save writes
TableDocument(tbl) ==
    [schema |-> SchemaToDict(tbl.schema),
     rows |-> [i \in 1..Len(tbl.rows) |-> RowToJson(tbl.rows[i])],
     next_row_id |-> tbl.next_row_id]

\* mutant: rows are filed under positions counted from 1
RECURSIVE RebuildIndexOneBased(_, _, _)
RebuildIndexOneBased(rows, name, i) ==
    IF i = 0 THEN EmptyIndex
    ELSE LET value == RowGet(rows[i], name)
             before == RebuildIndexOneBased(rows, name, i - 1)
         IN IF value # None THEN IndexAdd(before, value, i) ELSE before

\* replaying rows in file order: row i is filed under i when its value is not None
RECURSIVE RebuildIndex(_, _, _)
RebuildIndex(rows, name, i) ==
    IF i = 0 THEN EmptyIndex
    ELSE LET value == RowGet(rows[i], name)
             before == RebuildIndex(rows, name, i - 1)
         IN IF value # None THEN IndexAdd(before, value, i - 1) ELSE before

TableLoad(data) ==
    LET schema == SchemaFromDict(data["schema"])
        rows == [i \in 1..Len(data["rows"]) |-> RowFromJson(data["rows"][i])]
        pk_col == GetPrimaryKeyColumn(schema)
        table == NewTable(schema)
    IN [table EXCEPT
            !.next_row_id = data["next_row_id"],
            !.rows = rows,
            !.primary_key_index =
                IF pk_col # NoColumn
                THEN RebuildIndex(rows, pk_col.name, Len(rows))
                ELSE EmptyIndex,
            !.unique_indexes =
                [c \in DOMAIN table.unique_indexes |-> RebuildIndex(rows, c, Len(rows))]]

\* --------------------------------------------------------------- Database
\* a database is [tables, disk]: the dict of tables in memory and the
\* documents of the storage directory, each keyed by table name
SaveTable(db, name) ==
    [db EXCEPT !.disk =
        [n \in (DOMAIN db.disk) \cup {name} |->
            IF n = name THEN TableDocument(db.tables[name]) ELSE db.disk[n]]]

\* mutant: save_all writes nothing
SaveAllNothing(db) == db

SaveAll(db) ==
    [db EXCEPT !.disk =
        [n \in (DOMAIN db.disk) \cup (DOMAIN db.tables) |->
            IF n \in DOMAIN db.tables THEN TableDocument(db.tables[n]) ELSE db.disk[n]]]

\* mutant: the document is written beside the file and moved over it at the
\* end, so an interrupted save leaves the directory as it was
InterruptSaveBeforeRename(files, name, text) == files

\* the directory after a save of table name was interrupted: open(table_file,
\* "w") has emptied the file, and json.dump has written text, a proper prefix
\* of the document
InterruptSave(files, name, text) ==
    [n \in (DOMAIN files) \cup {name} |-> IF n = name THEN [text |-> text] ELSE files[n]]

\* json.load reads the file: a proper prefix of a document is no JSON text
Readable(file) == "text" \notin DOMAIN file

\* Database.__init__ on a storage directory: every document is loaded; a
\* file that Table.load raises on is reported and passed over
LoadExistingTables(files) ==
    [n \in {m \in DOMAIN files : Readable(files[m])} |-> TableLoad(files[n])]

OpenDatabase(files) == [tables |-> LoadExistingTables(files), disk |-> files]

\* mutant: the name is never looked up
CreateTableNeverRaises(db, schema) == FALSE

\* raises ValueError when the name is taken
CreateTableRaises(db, schema) == schema.table_name \in DOMAIN db.tables

CreateTable(db, schema) ==
    SaveTable(
        [db EXCEPT !.tables =
            [n \in (DOMAIN db.tables) \cup {schema.table_name} |->
                IF n = schema.table_name THEN NewTable(schema) ELSE db.tables[n]]],
        schema.table_name)

SetTable(db, name, tbl) == [db EXCEPT !.tables[name] = tbl]

\* ---------------------------------------------------------------- engine
ExecutionStats(rows_scanned, rows_returned) ==
    [rows_scanned |-> rows_scanned, rows_returned |-> rows_returned]

\* message is the text's fixed part, n the number printed in it
QueryResult(success, data, message, n, stats) ==
    [success |-> success, data |-> data, message |-> message, n |-> n,
     stats |-> stats, escaped |-> FALSE]

Failure(message) == QueryResult(FALSE, <<>>, message, 0, ExecutionStats(0, 0))

Success(message, n) == QueryResult(TRUE, <<>>, message, n, ExecutionStats(0, 0))

\* what a handler hands back: the database as it left it, and its result
Done(db, result) == [db |-> db, result |-> result]

\* an exception leaving the handler: the result is no QueryResult
Escapes(db, exc) == [db |-> db, result |-> [Failure(exc) EXCEPT !.escaped = TRUE]]

ExecuteCreateTable(db, stmt) ==
    LET schema == Schema(stmt.table_name, stmt.columns) IN
    IF CreateTableRaises(db, schema)
    THEN Done(db, Failure("Table already exists"))
    ELSE Done(CreateTable(db, schema), Success("Table created successfully", 0))

ExecuteInsert(db, stmt) ==
    IF stmt.table_name \notin DOMAIN db.tables
    THEN Done(db, Failure("Table not found"))
    ELSE LET r == TableInsert(db.tables[stmt.table_name], stmt.values) IN
         IF r.exc # ""
         THEN Done(SetTable(db, stmt.table_name, r.tbl), Failure(r.exc))
         ELSE Done(SaveAll(SetTable(db, stmt.table_name, r.tbl)),
                   Success("1 row inserted (ID)", r.ret))

\* the dotted names f"{table}.{column}" builds, and split(".") takes apart
DottedNames ==
    {<<"t", "id", "t.id">>, <<"t", "name", "t.name">>,
     <<"u", "id", "u.id">>, <<"u", "name", "u.name">>}

Qualify(table, column) ==
    IF \E d \in DottedNames : d[1] = table /\ d[2] = column
    THEN (CHOOSE d \in DottedNames : d[1] = table /\ d[2] = column)[3]
    ELSE "?"

SplitDot(full) ==
    LET d == CHOOSE d \in DottedNames : d[3] = full IN <<d[1], d[2]>>

\* the merged dict of one matching pair: the right side's keys are written last
Merge(left_row, right_row, left_table_name, right_table_name) ==
    LET lk == {Qualify(left_table_name, k) : k \in DOMAIN left_row}
        rk == {Qualify(right_table_name, k) : k \in DOMAIN right_row}
    IN [q \in lk \cup rk |->
            IF q \in rk
            THEN right_row[CHOOSE k \in DOMAIN right_row :
                                Qualify(right_table_name, k) = q]
            ELSE left_row[CHOOSE k \in DOMAIN left_row :
                                Qualify(left_table_name, k) = q]]

\* a result row before projection: a Row (joined = FALSE) or a _JoinedRow
PlainRow(row) == [joined |-> FALSE, data |-> row, left_table |-> "", right_table |-> ""]

JoinedRow(data, left_table, right_table) ==
    [joined |-> TRUE, data |-> data, left_table |-> left_table,
     right_table |-> right_table]

\* Row.get, or _JoinedRow.get with its two qualified fallbacks
AnyRowGet(row, col_name) ==
    IF ~row.joined THEN RowGet(row.data, col_name)
    ELSE IF col_name \in DOMAIN row.data THEN row.data[col_name]
    ELSE IF Qualify(row.left_table, col_name) \in DOMAIN row.data
    THEN row.data[Qualify(row.left_table, col_name)]
    ELSE IF Qualify(row.right_table, col_name) \in DOMAIN row.data
    THEN row.data[Qualify(row.right_table, col_name)]
    ELSE None

\* mutant: the inner loop ends at the first right row that matches
RECURSIVE NestedLoopFirstMatch(_, _, _, _)
NestedLoopFirstMatch(left_rows, right_rows, left_on, right_on) ==
    IF left_rows = <<>> THEN <<>>
    ELSE LET left_row == Head(left_rows)
             matching == SelectSeq(right_rows, LAMBDA right_row :
                            PyEq(RowGet(left_row, left_on[2]),
                                 RowGet(right_row, right_on[2])))
         IN [i \in 1..(IF matching = <<>> THEN 0 ELSE 1) |->
                JoinedRow(Merge(left_row, matching[i], left_on[1], right_on[1]),
                          left_on[1], right_on[1])]
            \o NestedLoopFirstMatch(Tail(left_rows), right_rows, left_on, right_on)

\* the nested loop: left rows outermost, right rows in scan order
RECURSIVE NestedLoop(_, _, _, _)
NestedLoop(left_rows, right_rows, left_on, right_on) ==
    IF left_rows = <<>> THEN <<>>
    ELSE LET left_row == Head(left_rows)
             matching == SelectSeq(right_rows, LAMBDA right_row :
                            PyEq(RowGet(left_row, left_on[2]),
                                 RowGet(right_row, right_on[2])))
         IN [i \in 1..Len(matching) |->
                JoinedRow(Merge(left_row, matching[i], left_on[1], right_on[1]),
                          left_on[1], right_on[1])]
            \o NestedLoop(Tail(left_rows), right_rows, left_on, right_on)

\* the rows of _execute_join; the caller has checked that the table exists
ExecuteJoin(db, left_rows, stmt) ==
    NestedLoop(left_rows, TableScan(db.tables[stmt.join_table]),
               SplitDot(stmt.join_on[1]), SplitDot(stmt.join_on[2]))

\* step 3 of _execute_select
Project(row, columns) ==
    IF columns # <<>>
    THEN [c \in {columns[i] : i \in 1..Len(columns)} |-> AnyRowGet(row, c)]
    ELSE row.data

\* mutant: with a predicate, the rows it let through are counted
RowsScannedFiltered(db, stmt, left_rows) ==
    Len(left_rows) + IF stmt.join_table # ""
                     THEN Len(TableScan(db.tables[stmt.join_table])) ELSE 0

\* stats.rows_scanned: len(table.rows) with a predicate, len(rows) of the scan
\* without one, and _execute_join adds len(right_rows)
RowsScanned(db, stmt, left_rows) ==
    (IF stmt.where_clause # <<>>
     THEN Len(db.tables[stmt.table_name].rows)
     ELSE Len(left_rows))
    + IF stmt.join_table # "" THEN Len(TableScan(db.tables[stmt.join_table])) ELSE 0

\* where_clause is <<>> for None, join_table "" for None
ExecuteSelect(db, stmt) ==
    IF stmt.table_name \notin DOMAIN db.tables
    THEN Done(db, Failure("Table not found"))
    ELSE
    LET table == db.tables[stmt.table_name] IN
    IF stmt.where_clause # <<>> /\ FilterRaises(table.rows, stmt.where_clause)
    THEN Escapes(db, "TypeError")
    ELSE IF stmt.join_table # "" /\ stmt.join_table \notin DOMAIN db.tables
    THEN Escapes(db, "Table not found")
    ELSE
    LET left_rows == IF stmt.where_clause # <<>>
                     THEN TableFilter(table, stmt.where_clause).ret
                     ELSE TableScan(table)
        rows == IF stmt.join_table # ""
                THEN ExecuteJoin(db, left_rows, stmt)
                ELSE [i \in 1..Len(left_rows) |-> PlainRow(left_rows[i])]
        rows_scanned == RowsScanned(db, stmt, left_rows)
        result_data == [i \in 1..Len(rows) |-> Project(rows[i], stmt.columns)]
    IN Done(db, QueryResult(TRUE, result_data, "Query returned row(s)",
                            Len(result_data), ExecutionStats(rows_scanned, Len(rows))))

\* 0-based positions of the rows the predicate holds for, ascending
MatchingIndices(rows, where) ==
    LET Positions == [i \in 1..Len(rows) |-> i - 1] IN
    SelectSeq(Positions, LAMBDA p : RowMatches(rows[p + 1], where) = "T")

\* mutant: to_dict hands out the row's own dict
ResultDictIsRows(stmt) == stmt.columns = <<>>

\* a result row is the dict a stored row holds, not a dict of its own: never,
\* for step 3 fills a new dict when columns are named and takes
\* row.to_dict(), which is values.copy(), when they are not
ResultDictIsStored(stmt) == FALSE

\* the table after the caller has assigned data[k][key] = value on the
\* result of stmt, a SELECT without JOIN that returned data
AssignedInResult(tbl, stmt, k, key, value) ==
    LET position == IF stmt.where_clause # <<>>
                    THEN MatchingIndices(tbl.rows, stmt.where_clause)[k] + 1
                    ELSE k
    IN IF ResultDictIsStored(stmt)
       THEN [tbl EXCEPT !.rows[position] = DictSet(@, key, value)]
       ELSE tbl

Reversed(seq) == [i \in 1..Len(seq) |-> seq[Len(seq) + 1 - i]]

\* table.update on each position in turn; the first one that raises ends the
\* loop, and the rows written before it stay written
RECURSIVE UpdateEach(_, _, _, _)
UpdateEach(tbl, order, updates, updated) ==
    IF order = <<>> THEN Returned(tbl, updated)
    ELSE LET r == TableUpdate(tbl, Head(order), updates) IN
         IF r.exc # "" THEN Raised(r.tbl, r.exc)
         ELSE UpdateEach(r.tbl, Tail(order), updates, updated + 1)

\* mutant: the predicate is not looked at
UpdateOrderOfAll(rows, where) == [i \in 1..Len(rows) |-> i - 1]

\* the order _execute_update visits the rows in
UpdateOrder(rows, where) ==
    IF where # <<>> THEN Reversed(MatchingIndices(rows, where))
    ELSE [i \in 1..Len(rows) |-> i - 1]

ExecuteUpdate(db, stmt) ==
    IF stmt.table_name \notin DOMAIN db.tables
    THEN Done(db, Failure("Table not found"))
    ELSE
    LET table == db.tables[stmt.table_name] IN
    IF stmt.where_clause # <<>> /\ FilterRaises(table.rows, stmt.where_clause)
    THEN Done(db, Failure("TypeError"))
    ELSE LET r == UpdateEach(table, UpdateOrder(table.rows, stmt.where_clause),
                             stmt.updates, 0)
         IN IF r.exc # ""
            THEN Done(SetTable(db, stmt.table_name, r.tbl), Failure(r.exc))
            ELSE Done(SaveAll(SetTable(db, stmt.table_name, r.tbl)),
                      Success("row(s) updated", r.ret))

\* row in rows_to_delete: equal to some row of the list
RowIn(row, rows) == \E j \in 1..Len(rows) : RowEq(row, rows[j])

\* mutant: the loop ends after its first deletion
RECURSIVE DeleteEachOnce(_, _, _, _)
DeleteEachOnce(tbl, i, rows_to_delete, deleted) ==
    IF i < 0 THEN Returned(tbl, deleted)
    ELSE IF RowIn(tbl.rows[i + 1], rows_to_delete)
    THEN Returned(TableDelete(tbl, i).tbl, deleted + 1)
    ELSE DeleteEachOnce(tbl, i - 1, rows_to_delete, deleted)

\* for i in range(len(rows) - 1, -1, -1): delete position i when its row is listed
RECURSIVE DeleteEach(_, _, _, _)
DeleteEach(tbl, i, rows_to_delete, deleted) ==
    IF i < 0 THEN Returned(tbl, deleted)
    ELSE IF RowIn(tbl.rows[i + 1], rows_to_delete)
    THEN LET r == TableDelete(tbl, i) IN
         IF r.exc # "" THEN Raised(r.tbl, r.exc)
         ELSE DeleteEach(r.tbl, i - 1, rows_to_delete, deleted + 1)
    ELSE DeleteEach(tbl, i - 1, rows_to_delete, deleted)

\* mutant: DELETE without WHERE starts the row ids again
ClearRowsAndIds(tbl) == [tbl EXCEPT !.rows = <<>>, !.next_row_id = 0]

\* DELETE without WHERE: table.rows.clear(), and nothing else
ClearRows(tbl) == [tbl EXCEPT !.rows = <<>>]

ExecuteDelete(db, stmt) ==
    IF stmt.table_name \notin DOMAIN db.tables
    THEN Done(db, Failure("Table not found"))
    ELSE
    LET table == db.tables[stmt.table_name] IN
    IF stmt.where_clause # <<>>
    THEN LET f == TableFilter(table, stmt.where_clause) IN
         IF f.exc # "" THEN Done(db, Failure(f.exc))
         ELSE LET r == DeleteEach(table, Len(table.rows) - 1, f.ret, 0) IN
              IF r.exc # ""
              THEN Done(SetTable(db, stmt.table_name, r.tbl), Failure(r.exc))
              ELSE Done(SaveAll(SetTable(db, stmt.table_name, r.tbl)),
                        Success("row(s) deleted", r.ret))
    ELSE Done(SaveAll(SetTable(db, stmt.table_name, ClearRows(table))),
              Success("row(s) deleted", Len(table.rows)))

Without(d, key) == [k \in (DOMAIN d) \ {key} |-> d[k]]

\* mutant: the table's document stays in the storage directory
ExecuteDropTableKeepsFile(db, stmt) ==
    IF stmt.table_name \notin DOMAIN db.tables
    THEN Done(db, Failure("Table not found"))
    ELSE Done([db EXCEPT !.tables = Without(db.tables, stmt.table_name)],
              Success("Table dropped successfully", 0))

ExecuteDropTable(db, stmt) ==
    IF stmt.table_name \notin DOMAIN db.tables
    THEN Done(db, Failure("Table not found"))
    ELSE Done([tables |-> Without(db.tables, stmt.table_name),
               disk |-> Without(db.disk, stmt.table_name)],
              Success("Table dropped successfully", 0))

\* f"EXPLAIN: Analysis of query '{stmt.query}' would be shown here"
ExecuteExplain(db, stmt) ==
    Done(db, Success("EXPLAIN: Analysis of query '" \o stmt.query
                        \o "' would be shown here", 0))

\* the handler execute picks by the statement's class
Dispatch(db, stmt) ==
    IF stmt.kind = "CreateTableStmt" THEN ExecuteCreateTable(db, stmt)
    ELSE IF stmt.kind = "InsertStmt" THEN ExecuteInsert(db, stmt)
    ELSE IF stmt.kind = "SelectStmt" THEN ExecuteSelect(db, stmt)
    ELSE IF stmt.kind = "UpdateStmt" THEN ExecuteUpdate(db, stmt)
    ELSE IF stmt.kind = "DeleteStmt" THEN ExecuteDelete(db, stmt)
    ELSE IF stmt.kind = "DropTableStmt" THEN ExecuteDropTable(db, stmt)
    ELSE IF stmt.kind = "ExplainStmt" THEN ExecuteExplain(db, stmt)
    ELSE Done(db, Failure("Unknown statement type"))

\* mutant: the exception's text is left out of the message
ErrorMessageWithoutText(exc) == "Error"

\* f"Error: {str(e)}"
ErrorMessage(exc) ==
    IF exc = "Table not found" THEN "Error: Table not found" ELSE "Error: TypeError"

\* mutant: execute without its try block
CatchNothing(out) == out

\* except Exception as e: whatever leaves a handler becomes a failed result
CatchAll(out) ==
    IF out.result.escaped
    THEN Done(out.db, Failure(ErrorMessage(out.result.message)))
    ELSE out

Execute(db, stmt) == CatchAll(Dispatch(db, stmt))

\* ------------------------------------------------------------- statements
\* a statement object; every class carries only some of the fields
Stmt(kind, table_name) ==
    [kind |-> kind, table_name |-> table_name, columns |-> <<>>,
     values |-> EmptyDict, updates |-> <<>>, where_clause |-> <<>>,
     join_table |-> "", join_on |-> <<>>]

CreateTableStmt(table_name, columns) ==
    [Stmt("CreateTableStmt", table_name) EXCEPT !.columns = columns]

InsertStmt(table_name, values) ==
    [Stmt("InsertStmt", table_name) EXCEPT !.values = values]

SelectStmt(table_name, columns, where_clause, join_table, join_on) ==
    [Stmt("SelectStmt", table_name) EXCEPT
        !.columns = columns, !.where_clause = where_clause,
        !.join_table = join_table, !.join_on = join_on]

UpdateStmt(table_name, updates, where_clause) ==
    [Stmt("UpdateStmt", table_name) EXCEPT
        !.updates = updates, !.where_clause = where_clause]

DeleteStmt(table_name, where_clause) ==
    [Stmt("DeleteStmt", table_name) EXCEPT !.where_clause = where_clause]

DropTableStmt(table_name) == Stmt("DropTableStmt", table_name)

\* an ExplainStmt carries the text after EXPLAIN, and nothing else
ExplainStmtOf(query) ==
    [kind |-> "ExplainStmt", table_name |-> "", columns |-> <<>>,
     values |-> EmptyDict, updates |-> <<>>, where_clause |-> <<>>,
     join_table |-> "", join_on |-> <<>>, query |-> query]

ExplainStmt == ExplainStmtOf("SELECT * FROM t")

\* ----------------------------------------------------------- Python str
\* a str is a string; its i-th character, counting from 1, is At(s, i), and
\* "" past its end
At(s, i) == IF 1 <= i /\ i <= Len(s) THEN SubSeq(s, i, i) ELSE ""

LowerLetters == "abcdefghijklmnopqrstuvwxyz"

UpperLetters == "ABCDEFGHIJKLMNOPQRSTUVWXYZ"

Digits == "0123456789"

Chars(s) == {At(s, i) : i \in 1..Len(s)}

UpChar(c) ==
    IF c \in Chars(LowerLetters)
    THEN At(UpperLetters, CHOOSE i \in 1..Len(LowerLetters) : At(LowerLetters, i) = c)
    ELSE c

\* str.upper()
RECURSIVE Upper(_)
Upper(s) == IF s = "" THEN "" ELSE UpChar(Head(s)) \o Upper(Tail(s))

\* \s
IsSpace(c) == c \in {" ", "\t", "\n"}

\* \w
IsWord(c) ==
    c \in Chars(LowerLetters) \cup Chars(UpperLetters) \cup Chars(Digits) \cup {"_"}

IsDigit(c) == c \in Chars(Digits)

\* str.strip()
Strip(s) ==
    LET keep == {i \in 1..Len(s) : ~IsSpace(At(s, i))} IN
    IF keep = {} THEN ""
    ELSE SubSeq(s, CHOOSE i \in keep : \A j \in keep : i <= j,
                   CHOOSE i \in keep : \A j \in keep : i >= j)

\* re.sub(r"\s+", " ", s)
RECURSIVE CollapseSpaces(_)
CollapseSpaces(s) ==
    IF s = "" THEN ""
    ELSE IF ~IsSpace(Head(s)) THEN Head(s) \o CollapseSpaces(Tail(s))
    ELSE IF Len(s) > 1 /\ IsSpace(At(s, 2)) THEN CollapseSpaces(Tail(s))
    ELSE " " \o CollapseSpaces(Tail(s))

\* s[i:], counting from 1
From(s, i) == SubSeq(s, i, Len(s))

\* s has p at position i
HasAt(s, i, p) == i >= 1 /\ i + Len(p) - 1 <= Len(s) /\ SubSeq(s, i, i + Len(p) - 1) = p

\* str.startswith
StartsWith(s, p) == HasAt(s, 1, p)

\* str.endswith
EndsWith(s, p) == HasAt(s, Len(s) - Len(p) + 1, p)

\* p in s
Contains(s, p) == \E i \in 1..(Len(s) + 1) : HasAt(s, i, p)

\* str.find, counting from 1: 0 when p is not in s
Find(s, p) ==
    IF Contains(s, p)
    THEN CHOOSE i \in 1..(Len(s) + 1) :
            HasAt(s, i, p) /\ \A j \in 1..(i - 1) : ~HasAt(s, j, p)
    ELSE 0

\* the position after the longest run of \s, of \w, starting at i
RECURSIVE SpacesEnd(_, _)
SpacesEnd(s, i) == IF i <= Len(s) /\ IsSpace(At(s, i)) THEN SpacesEnd(s, i + 1) ELSE i

RECURSIVE WordEnd(_, _)
WordEnd(s, i) == IF i <= Len(s) /\ IsWord(At(s, i)) THEN WordEnd(s, i + 1) ELSE i

\* a keyword of a pattern compiled with re.IGNORECASE, at position i
KeywordAt(s, i, keyword) ==
    /\ i >= 1
    /\ i + Len(keyword) - 1 <= Len(s)
    /\ Upper(SubSeq(s, i, i + Len(keyword) - 1)) = keyword

\* the least position of a non-empty set of positions
Least(positions) == CHOOSE i \in positions : \A j \in positions : i <= j

\* ------------------------------------------------------------ the parser
\* a str value of a statement, held as its text
StrV(s) == [t |-> "str", v |-> s]

\* a float value, held as the text float() was given
FloatV(s) == [t |-> "float", v |-> s]

\* the text without a leading sign
Unsigned(s) == IF s # "" /\ Head(s) \in {"+", "-"} THEN Tail(s) ELSE s

\* int(s) succeeds: digits after an optional sign, single underscores between
IsInt(s) ==
    LET body == Unsigned(s) IN
    /\ body # ""
    /\ \A i \in 1..Len(body) : IsDigit(At(body, i)) \/ At(body, i) = "_"
    /\ IsDigit(Head(body))
    /\ IsDigit(At(body, Len(body)))
    /\ \A i \in 1..(Len(body) - 1) : ~(At(body, i) = "_" /\ At(body, i + 1) = "_")

DigitValue(c) == (CHOOSE i \in 1..Len(Digits) : At(Digits, i) = c) - 1

RECURSIVE Decimal(_, _)
Decimal(body, acc) ==
    IF body = "" THEN acc
    ELSE IF Head(body) = "_" THEN Decimal(Tail(body), acc)
    ELSE Decimal(Tail(body), 10 * acc + DigitValue(Head(body)))

IntOf(s) ==
    IF s # "" /\ Head(s) = "-" THEN 0 - Decimal(Unsigned(s), 0)
    ELSE Decimal(Unsigned(s), 0)

\* float(s) succeeds, for a text with a point: digits around one point
IsFloat(s) ==
    LET body == Unsigned(s)
        point == Find(body, ".")
    IN /\ point # 0
       /\ Len(body) >= 2
       /\ \A i \in 1..Len(body) : i # point => IsDigit(At(body, i))

ParseValue(value_str) ==
    LET v == Strip(value_str) IN
    IF \/ StartsWith(v, "'") /\ EndsWith(v, "'")
       \/ StartsWith(v, "\"") /\ EndsWith(v, "\"")
    THEN StrV(SubSeq(v, 2, Len(v) - 1))
    ELSE IF Upper(v) \in {"TRUE", "FALSE"} THEN BoolV(Upper(v) = "TRUE")
    ELSE IF Contains(v, ".") THEN (IF IsFloat(v) THEN FloatV(v) ELSE StrV(v))
    ELSE IF IsInt(v) THEN IntV(IntOf(v))
    ELSE StrV(v)

\* the loop of _split_by_comma from character i on; quote_char is "" outside
\* quotes
RECURSIVE SplitByCommaFrom(_, _, _, _, _)
SplitByCommaFrom(text, i, current, quote_char, parts) ==
    LET flushed == IF Strip(current) # "" THEN Append(parts, Strip(current)) ELSE parts
        char == At(text, i)
    IN IF i > Len(text) THEN flushed
       ELSE IF char \in {"'", "\""} /\ (quote_char = "" \/ char = quote_char)
       THEN SplitByCommaFrom(text, i + 1, current \o char,
                             IF quote_char = "" THEN char ELSE "", parts)
       ELSE IF char = "," /\ quote_char = ""
       THEN SplitByCommaFrom(text, i + 1, "", quote_char, flushed)
       ELSE SplitByCommaFrom(text, i + 1, current \o char, quote_char, parts)

SplitByComma(text) == SplitByCommaFrom(text, 1, "", "", <<>>)

ParseValues(values_str) ==
    LET parts == SplitByComma(values_str) IN
    [i \in 1..Len(parts) |-> ParseValue(parts[i])]

\* what parse hands back: a statement, or the ParseError it raises
NoStmt == Stmt("", "")

Parsed(stmt) == [error |-> "", message |-> "", stmt |-> stmt]

ParseError(message) == [error |-> "ParseError", message |-> message, stmt |-> NoStmt]

\* str.split(): the runs of characters between whitespace
RECURSIVE SplitWhitespace(_)
SplitWhitespace(s) ==
    LET start == SpacesEnd(s, 1)
        stop == CHOOSE j \in start..(Len(s) + 1) :
                    /\ j > Len(s) \/ IsSpace(At(s, j))
                    /\ \A k \in start..(j - 1) : ~IsSpace(At(s, k))
    IN IF start > Len(s) THEN <<>>
       ELSE <<SubSeq(s, start, stop - 1)>> \o SplitWhitespace(From(s, stop))

\* the position of the last ")" of s, 0 when it has none after position i
LastClosing(s, i) ==
    LET at == {j \in (i + 1)..Len(s) : At(s, j) = ")"} IN
    IF at = {} THEN 0 ELSE CHOOSE j \in at : \A k \in at : j >= k

\* CREATE\s+TABLE\s+(\w+)\s*\((.*)\) matched at the start of sql: the groups,
\* or matched = FALSE
MatchCreateTable(sql) ==
    LET table == SpacesEnd(sql, 7)
        name == SpacesEnd(sql, table + 5)
        name_end == WordEnd(sql, name)
        opening == SpacesEnd(sql, name_end)
        closing == LastClosing(sql, opening)
    IN IF /\ KeywordAt(sql, 1, "CREATE")
          /\ table > 7
          /\ KeywordAt(sql, table, "TABLE")
          /\ name > table + 5
          /\ name_end > name
          /\ At(sql, opening) = "("
          /\ closing # 0
       THEN [matched |-> TRUE, table_name |-> SubSeq(sql, name, name_end - 1),
             columns_str |-> SubSeq(sql, opening + 1, closing - 1)]
       ELSE [matched |-> FALSE, table_name |-> "", columns_str |-> ""]

\* the ParseError one column definition raises, "" when it raises none
ColumnDefError(col_def) ==
    LET parts == SplitWhitespace(col_def) IN
    IF Len(parts) < 2 THEN "Invalid column definition: " \o Strip(col_def)
    ELSE IF Upper(parts[2]) \notin DataTypes
    THEN "Unknown data type: " \o Upper(parts[2])
    ELSE ""

\* the Column of one column definition
ColumnOf(col_def) ==
    LET parts == SplitWhitespace(col_def)
        upper == Upper(col_def)
    IN Column(parts[1], Upper(parts[2]),
              Contains(upper, "PRIMARY") /\ Contains(upper, "KEY"),
              Contains(upper, "UNIQUE"),
              ~Contains(upper, "NOT") \/ ~Contains(upper, "NULL"))

ParseCreateTable(sql) ==
    LET match == MatchCreateTable(sql)
        col_defs == SplitByComma(match.columns_str)
        failing == {i \in 1..Len(col_defs) : ColumnDefError(col_defs[i]) # ""}
    IN IF ~match.matched THEN ParseError("Invalid CREATE TABLE syntax")
       ELSE IF failing # {}
       THEN ParseError(ColumnDefError(col_defs[Least(failing)]))
       ELSE Parsed(CreateTableStmt(match.table_name,
                        [i \in 1..Len(col_defs) |-> ColumnOf(col_defs[i])]))

\* the InsertStmt the parser builds: a list of columns and a list of values
ParsedInsertStmt(table_name, columns, values) ==
    [Stmt("InsertStmt", table_name) EXCEPT !.columns = columns, !.values = values]

\* [col.strip() for col in parts]
StripEach(parts) == [i \in 1..Len(parts) |-> Strip(parts[i])]

\* INSERT\s+INTO\s+(\w+)\s*\((.*?)\)\s+VALUES\s*\((.*)\) matched at the start
\* of sql: the lazy group ends at the first ")" the rest matches after
MatchInsert(sql) ==
    LET into == SpacesEnd(sql, 7)
        name == SpacesEnd(sql, into + 4)
        name_end == WordEnd(sql, name)
        opening == SpacesEnd(sql, name_end)
        ValuesOpening(closing) == SpacesEnd(sql, SpacesEnd(sql, closing + 1) + 6)
        closings == {c \in (opening + 1)..Len(sql) :
                        /\ At(sql, c) = ")"
                        /\ SpacesEnd(sql, c + 1) > c + 1
                        /\ KeywordAt(sql, SpacesEnd(sql, c + 1), "VALUES")
                        /\ At(sql, ValuesOpening(c)) = "("
                        /\ LastClosing(sql, ValuesOpening(c)) # 0}
        closing == Least(closings)
    IN IF /\ KeywordAt(sql, 1, "INSERT")
          /\ into > 7
          /\ KeywordAt(sql, into, "INTO")
          /\ name > into + 4
          /\ name_end > name
          /\ At(sql, opening) = "("
          /\ closings # {}
       THEN [matched |-> TRUE, table_name |-> SubSeq(sql, name, name_end - 1),
             columns_str |-> SubSeq(sql, opening + 1, closing - 1),
             values_str |-> SubSeq(sql, ValuesOpening(closing) + 1,
                                   LastClosing(sql, ValuesOpening(closing)) - 1)]
       ELSE [matched |-> FALSE, table_name |-> "", columns_str |-> "",
             values_str |-> ""]

ParseInsertUncounted(sql) ==
    LET match == MatchInsert(sql)
        columns == StripEach(SplitByComma(match.columns_str))
        values == ParseValues(match.values_str)
    IN IF ~match.matched THEN ParseError("Invalid INSERT syntax")
       ELSE Parsed(ParsedInsertStmt(match.table_name, columns, values))

ParseInsert(sql) ==
    LET match == MatchInsert(sql)
        columns == StripEach(SplitByComma(match.columns_str))
        values == ParseValues(match.values_str)
    IN IF ~match.matched THEN ParseError("Invalid INSERT syntax")
       ELSE IF Len(columns) # Len(values)
       THEN ParseError("Column and value count mismatch")
       ELSE Parsed(ParsedInsertStmt(match.table_name, columns, values))

\* the alternatives of (=|!=|<|>|<=|>=), in the order the pattern tries them
Operators == <<"=", "!=", "<", ">", "<=", ">=">>

\* the alternative the pattern takes at position i of s: the first one
\* standing there, which has to leave at least `least` characters after it;
\* "" when no alternative does
OperatorAt(s, i, least) ==
    LET standing == {k \in 1..Len(Operators) :
                        /\ HasAt(s, i, Operators[k])
                        /\ i + Len(Operators[k]) - 1 + least <= Len(s)}
    IN IF standing = {} THEN "" ELSE Operators[Least(standing)]

\* (\w+)\s*(=|!=|<|>|<=|>=)\s*(.*) matched at the start of the WHERE text of
\* an UPDATE or a DELETE: the where_clause, None when it does not match
ParseWhereText(where_clause_str) ==
    LET name_end == WordEnd(where_clause_str, 1)
        at == SpacesEnd(where_clause_str, name_end)
        operator == OperatorAt(where_clause_str, at, 0)
        value == SpacesEnd(where_clause_str, at + Len(operator))
    IN IF where_clause_str = "" \/ name_end = 1 \/ operator = "" THEN <<>>
       ELSE <<SubSeq(where_clause_str, 1, name_end - 1), operator,
              ParseValue(From(where_clause_str, value))>>

\* WHERE\s+(\w+)\s*(=|!=|<|>|<=|>=)\s*(.+?)(?:\s+JOIN|\s*$) matched at
\* position p of rest
WhereMatchAt(rest, p) ==
    LET name == SpacesEnd(rest, p + 5)
        name_end == WordEnd(rest, name)
        at == SpacesEnd(rest, name_end)
        operator == OperatorAt(rest, at, 1)
        after == SpacesEnd(rest, at + Len(operator))
        value == IF after <= Len(rest) THEN after ELSE Len(rest)
        JoinAfter(e) ==
            SpacesEnd(rest, e + 1) > e + 1 /\ KeywordAt(rest, SpacesEnd(rest, e + 1), "JOIN")
        stops == {e \in value..Len(rest) :
                     JoinAfter(e) \/ SpacesEnd(rest, e + 1) > Len(rest)}
        stop == Least(stops)
    IN IF /\ KeywordAt(rest, p, "WHERE")
          /\ name > p + 5
          /\ name_end > name
          /\ operator # ""
       THEN [matched |-> TRUE, col_name |-> SubSeq(rest, name, name_end - 1),
             operator |-> operator, value_str |-> SubSeq(rest, value, stop),
             end |-> IF JoinAfter(stop) THEN SpacesEnd(rest, stop + 1) + 4
                     ELSE Len(rest) + 1]
       ELSE [matched |-> FALSE, col_name |-> "", operator |-> "",
             value_str |-> "", end |-> 0]

\* value_str.split('JOIN')[0]
BeforeJoin(value_str) ==
    IF Find(value_str, "JOIN") = 0 THEN value_str
    ELSE SubSeq(value_str, 1, Find(value_str, "JOIN") - 1)

\* the where_clause re.search finds in the rest of a SELECT, None when none
ParseSelectWhere(rest) ==
    LET matching == {p \in 1..Len(rest) : WhereMatchAt(rest, p).matched}
        where_match == WhereMatchAt(rest, Least(matching))
        value_str == Strip(where_match.value_str)
    IN IF matching = {} THEN <<>>
       ELSE <<where_match.col_name, where_match.operator,
              ParseValue(IF Contains(Upper(From(rest, where_match.end)), "JOIN")
                         THEN Strip(BeforeJoin(value_str))
                         ELSE value_str)>>

\* JOIN\s+(\w+)\s+ON\s+(\w+)\.(\w+)\s*=\s*(\w+)\.(\w+) matched at position p
JoinMatchAt(rest, p) ==
    LET name == SpacesEnd(rest, p + 4)
        name_end == WordEnd(rest, name)
        on == SpacesEnd(rest, name_end)
        left_table == SpacesEnd(rest, on + 2)
        left_dot == WordEnd(rest, left_table)
        left_end == WordEnd(rest, left_dot + 1)
        equals == SpacesEnd(rest, left_end)
        right_table == SpacesEnd(rest, equals + 1)
        right_dot == WordEnd(rest, right_table)
        right_end == WordEnd(rest, right_dot + 1)
    IN IF /\ KeywordAt(rest, p, "JOIN")
          /\ name > p + 4
          /\ name_end > name
          /\ on > name_end
          /\ KeywordAt(rest, on, "ON")
          /\ left_table > on + 2
          /\ left_dot > left_table
          /\ At(rest, left_dot) = "."
          /\ left_end > left_dot + 1
          /\ At(rest, equals) = "="
          /\ right_dot > right_table
          /\ At(rest, right_dot) = "."
          /\ right_end > right_dot + 1
       THEN [matched |-> TRUE, join_table |-> SubSeq(rest, name, name_end - 1),
             join_on |-> <<SubSeq(rest, left_table, left_end - 1),
                           SubSeq(rest, right_table, right_end - 1)>>]
       ELSE [matched |-> FALSE, join_table |-> "", join_on |-> <<>>]

\* the join re.search finds in the rest of a SELECT
ParseSelectJoin(rest) ==
    LET matching == {p \in 1..Len(rest) : JoinMatchAt(rest, p).matched} IN
    IF matching = {} THEN JoinMatchAt(rest, 0)
    ELSE JoinMatchAt(rest, Least(matching))

\* SELECT\s+(.*?)\s+FROM\s+(\w+)(?:\s+(.*))? matched at the start of the text
\* parse has normalised, where every run of whitespace is one space
MatchSelect(sql) ==
    LET FromAfter(e) == SpacesEnd(sql, e)
        NameAfter(e) == SpacesEnd(sql, FromAfter(e) + 4)
        stops == {e \in 8..Len(sql) :
                     /\ FromAfter(e) > e
                     /\ KeywordAt(sql, FromAfter(e), "FROM")
                     /\ NameAfter(e) > FromAfter(e) + 4
                     /\ WordEnd(sql, NameAfter(e)) > NameAfter(e)}
        stop == Least(stops)
        name_end == WordEnd(sql, NameAfter(stop))
    IN IF KeywordAt(sql, 1, "SELECT") /\ SpacesEnd(sql, 7) > 7 /\ stops # {}
       THEN [matched |-> TRUE, columns_str |-> SubSeq(sql, 8, stop - 1),
             table_name |-> SubSeq(sql, NameAfter(stop), name_end - 1),
             rest |-> IF SpacesEnd(sql, name_end) > name_end
                      THEN From(sql, SpacesEnd(sql, name_end)) ELSE ""]
       ELSE [matched |-> FALSE, columns_str |-> "", table_name |-> "", rest |-> ""]

ParseSelect(sql) ==
    LET match == MatchSelect(sql)
        join_match == ParseSelectJoin(match.rest)
    IN IF ~match.matched THEN ParseError("Invalid SELECT syntax")
       ELSE Parsed(SelectStmt(match.table_name,
                        IF Strip(match.columns_str) = "*" THEN <<>>
                        ELSE StripEach(SplitByComma(match.columns_str)),
                        ParseSelectWhere(match.rest),
                        join_match.join_table, join_match.join_on))

\* UPDATE\s+(\w+)\s+SET\s+(.+?)(?:\s+WHERE\s+(.*))?$ matched at the start of
\* the normalised text
MatchUpdate(sql) ==
    LET name == SpacesEnd(sql, 7)
        name_end == WordEnd(sql, name)
        set == SpacesEnd(sql, name_end)
        clause == SpacesEnd(sql, set + 3)
        WhereAfter(e) == SpacesEnd(sql, e + 1)
        TextAfter(e) == SpacesEnd(sql, WhereAfter(e) + 5)
        HasWhere(e) ==
            /\ WhereAfter(e) > e + 1
            /\ KeywordAt(sql, WhereAfter(e), "WHERE")
            /\ TextAfter(e) > WhereAfter(e) + 5
        stops == {e \in clause..Len(sql) : HasWhere(e) \/ e = Len(sql)}
        stop == Least(stops)
    IN IF /\ KeywordAt(sql, 1, "UPDATE")
          /\ name > 7
          /\ name_end > name
          /\ set > name_end
          /\ KeywordAt(sql, set, "SET")
          /\ clause > set + 3
          /\ stops # {}
       THEN [matched |-> TRUE, table_name |-> SubSeq(sql, name, name_end - 1),
             set_clause |-> SubSeq(sql, clause, stop),
             where_clause_str |-> IF HasWhere(stop) THEN From(sql, TextAfter(stop))
                                  ELSE ""]
       ELSE [matched |-> FALSE, table_name |-> "", set_clause |-> "",
             where_clause_str |-> ""]

\* updates[col_name] = value on the items of a dict: a key already there
\* keeps its place
SetItem(items, col_name, value) ==
    IF \E i \in 1..Len(items) : items[i][1] = col_name
    THEN [i \in 1..Len(items) |->
            IF items[i][1] = col_name THEN <<col_name, value>> ELSE items[i]]
    ELSE Append(items, <<col_name, value>>)

\* the updates the first n assignments of a SET clause build
RECURSIVE UpdatesOf(_, _)
UpdatesOf(assignments, n) ==
    IF n = 0 THEN <<>>
    ELSE LET assignment == assignments[n]
             equals == Find(assignment, "=")
         IN SetItem(UpdatesOf(assignments, n - 1),
                    Strip(SubSeq(assignment, 1, equals - 1)),
                    ParseValue(Strip(From(assignment, equals + 1))))

ParseUpdate(sql) ==
    LET match == MatchUpdate(sql)
        assignments == SplitByComma(match.set_clause)
        failing == {i \in 1..Len(assignments) : Find(assignments[i], "=") = 0}
    IN IF ~match.matched THEN ParseError("Invalid UPDATE syntax")
       ELSE IF failing # {}
       THEN ParseError("Invalid SET clause: " \o assignments[Least(failing)])
       ELSE Parsed(UpdateStmt(match.table_name,
                              UpdatesOf(assignments, Len(assignments)),
                              ParseWhereText(match.where_clause_str)))

\* DELETE\s+FROM\s+(\w+)(?:\s+WHERE\s+(.*))? matched at the start of sql
MatchDelete(sql) ==
    LET from == SpacesEnd(sql, 7)
        name == SpacesEnd(sql, from + 4)
        name_end == WordEnd(sql, name)
        where == SpacesEnd(sql, name_end)
        text == SpacesEnd(sql, where + 5)
    IN IF /\ KeywordAt(sql, 1, "DELETE")
          /\ from > 7
          /\ KeywordAt(sql, from, "FROM")
          /\ name > from + 4
          /\ name_end > name
       THEN [matched |-> TRUE, table_name |-> SubSeq(sql, name, name_end - 1),
             where_clause_str |->
                IF where > name_end /\ KeywordAt(sql, where, "WHERE") /\ text > where + 5
                THEN From(sql, text) ELSE ""]
       ELSE [matched |-> FALSE, table_name |-> "", where_clause_str |-> ""]

ParseDelete(sql) ==
    LET match == MatchDelete(sql) IN
    IF ~match.matched THEN ParseError("Invalid DELETE syntax")
    ELSE Parsed(DeleteStmt(match.table_name, ParseWhereText(match.where_clause_str)))

\* DROP\s+TABLE\s+(\w+)
ParseDropTable(sql) ==
    LET table == SpacesEnd(sql, 5)
        name == SpacesEnd(sql, table + 5)
        name_end == WordEnd(sql, name)
    IN IF /\ KeywordAt(sql, 1, "DROP")
          /\ table > 5
          /\ KeywordAt(sql, table, "TABLE")
          /\ name > table + 5
          /\ name_end > name
       THEN Parsed(DropTableStmt(SubSeq(sql, name, name_end - 1)))
       ELSE ParseError("Invalid DROP TABLE syntax")

\* the ExplainStmt the parser builds: the text after EXPLAIN
ParsedExplainStmt(query) == ExplainStmtOf(query)

\* EXPLAIN\s+(.*)
ParseExplain(sql) ==
    IF KeywordAt(sql, 1, "EXPLAIN") /\ SpacesEnd(sql, 8) > 8
    THEN Parsed(ParsedExplainStmt(From(sql, SpacesEnd(sql, 8))))
    ELSE ParseError("Invalid EXPLAIN syntax")

\* SQLParser.parse
Parse(text) ==
    LET sql == CollapseSpaces(Strip(text)) IN
    IF Strip(text) = "" THEN ParseError("Empty query")
    ELSE IF StartsWith(Upper(sql), "CREATE TABLE") THEN ParseCreateTable(sql)
    ELSE IF StartsWith(Upper(sql), "INSERT") THEN ParseInsert(sql)
    ELSE IF StartsWith(Upper(sql), "SELECT") THEN ParseSelect(sql)
    ELSE IF StartsWith(Upper(sql), "UPDATE") THEN ParseUpdate(sql)
    ELSE IF StartsWith(Upper(sql), "DELETE") THEN ParseDelete(sql)
    ELSE IF StartsWith(Upper(sql), "DROP TABLE") THEN ParseDropTable(sql)
    ELSE IF StartsWith(Upper(sql), "EXPLAIN") THEN ParseExplain(sql)
    ELSE ParseError("Unknown command: " \o sql)

\* ------------------------------------------------------ the inputs drawn
\* CREATE TABLE t (id INT PRIMARY KEY, name TEXT UNIQUE)
ColumnsT ==
    <<Column("id", "INT", TRUE, FALSE, TRUE), Column("name", "TEXT", FALSE, TRUE, TRUE)>>

Ids == {IntV(1), IntV(2)}

Names == {TextV(1), TextV(2)}

\* the dicts an INSERT builds: both columns given, the id well or ill typed
InsertValues ==
    {[c \in {"id", "name"} |-> IF c = "id" THEN i ELSE n] :
        i \in Ids \cup {TextV(1)}, n \in Names}

WhereClauses ==
    {<<>>, <<"id", "=", IntV(1)>>, <<"name", "!=", TextV(1)>>, <<"id", "<", IntV(2)>>, <<"name", "<", IntV(2)>>}

SetLists ==
    {<<<<"id", i>>>> : i \in Ids} \cup {<<<<"name", n>>>> : n \in Names}
    \cup {<<<<"id", IntV(2)>>, <<"name", IntV(1)>>>>, <<<<"zip", IntV(1)>>>>}

InsertStmts == {InsertStmt("t", values) : values \in InsertValues}

SelectStmts ==
    {SelectStmt("t", columns, where, "", <<>>) :
        columns \in {<<>>, <<"name">>}, where \in WhereClauses}
    \cup {SelectStmt("t", <<>>, <<>>, "u", <<"t.id", "u.id">>)}

UpdateStmts ==
    {UpdateStmt("t", updates, where) : updates \in SetLists, where \in WhereClauses}

DeleteStmts == {DeleteStmt("t", where) : where \in WhereClauses}

\* ------------------------------------------------------------ the machine
Database == [tables |-> tables, disk |-> disk]

\* no function has been applied yet
NoCall == [op |-> "", args |-> <<>>, done |-> FALSE, ret |-> <<>>]

\* a function about to be applied to its arguments, and applied
Pending(op, args) == [op |-> op, args |-> args, done |-> FALSE, ret |-> <<>>]

Applied(c, ret) == [c EXCEPT !.done = TRUE, !.ret = ret]

\* what is kept of the last call: the statement's class, whether it had a
\* WHERE clause, and the result's success flag and message; escaped marks an
\* exception that left execute
Last(kind, where_clause, result) ==
    [kind |-> kind, where |-> where_clause # <<>>, success |-> result.success,
     message |-> result.message, n |-> result.n, escaped |-> result.escaped]

\* a Database constructed on an empty storage directory; nothing executed yet
Init ==
    /\ tables = [n \in {} |-> NewTable(Schema("", <<>>))]
    /\ disk = [n \in {} |-> TableDocument(NewTable(Schema("", <<>>)))]
    /\ last = Last("", <<>>, Success("", 0))
    /\ insertsOnly = {}
    /\ created = {}
    /\ call = NoCall

\* the names CREATE TABLE statements have been executed for, less those a
\* later DROP TABLE statement was executed for
Created(names, stmt) ==
    IF stmt.kind = "CreateTableStmt" THEN names \cup {stmt.table_name}
    ELSE IF stmt.kind = "DropTableStmt" THEN names \ {stmt.table_name}
    ELSE names

\* engine.execute(stmt)
Run(stmt) ==
    \E out \in {Execute(Database, stmt)} :
    /\ tables' = out.db.tables
    /\ disk' = out.db.disk
    /\ last' = Last(stmt.kind, stmt.where_clause, out.result)
    /\ created' = Created(created, stmt)
    /\ UNCHANGED call

ExecCreateTable ==
    /\ Run(CreateTableStmt("t", ColumnsT))
    /\ insertsOnly' = IF last'.success THEN insertsOnly \cup {"t"} ELSE insertsOnly

ExecInsert ==
    \E stmt \in InsertStmts :
        /\ stmt.table_name \in DOMAIN tables =>
                /\ Len(tables[stmt.table_name].rows) < MaxRows
                /\ tables[stmt.table_name].next_row_id < MaxNextId
        /\ Run(stmt)
        /\ UNCHANGED insertsOnly

ExecSelect ==
    \E stmt \in SelectStmts :
        /\ Run(stmt)
        /\ UNCHANGED insertsOnly

ExecUpdate ==
    \E stmt \in UpdateStmts :
        /\ Run(stmt)
        /\ insertsOnly' = insertsOnly \ {stmt.table_name}

ExecDelete ==
    \E stmt \in DeleteStmts :
        /\ Run(stmt)
        /\ insertsOnly' = insertsOnly \ {stmt.table_name}

ExecDropTable ==
    /\ Run(DropTableStmt("t"))
    /\ insertsOnly' = insertsOnly \ {"t"}

ExecExplain ==
    /\ Run(ExplainStmt)
    /\ UNCHANGED insertsOnly

\* a statement of none of the seven classes
ExecUnknown ==
    /\ Run(Stmt("object", ""))
    /\ UNCHANGED insertsOnly

\* database.save_all(), then a fresh Database on the same storage directory
SaveAndReopen ==
    \E db \in {OpenDatabase(SaveAll(Database).disk)} :
    /\ tables' = db.tables
    /\ disk' = db.disk
    /\ last' = Last("save_all; Database", <<>>, Success("", 0))
    /\ insertsOnly' = {}
    /\ UNCHANGED <<created, call>>

\* a fresh Database on the storage directory as the last save left it
Reopen ==
    \E db \in {OpenDatabase(disk)} :
    /\ tables' = db.tables
    /\ disk' = db.disk
    /\ last' = Last("Database", <<>>, Success("", 0))
    /\ insertsOnly' = {}
    /\ UNCHANGED <<created, call>>

Next ==
    \/ ExecCreateTable
    \/ ExecInsert
    \/ ExecSelect
    \/ ExecUpdate
    \/ ExecDelete
    \/ ExecDropTable
    \/ ExecExplain
    \/ ExecUnknown
    \/ SaveAndReopen
    \/ Reopen

Spec == Init /\ [][Next]_vars

\* ------------------------------------- statements that all return success
\* the steps of the sequences in which every statement returned success=true
OkCreateTable == ExecCreateTable /\ last'.success

OkInsert == ExecInsert /\ last'.success

OkSelect == ExecSelect /\ last'.success

OkUpdate == ExecUpdate /\ last'.success

OkDelete == ExecDelete /\ last'.success

OkDropTable == ExecDropTable /\ last'.success

OkExplain == ExecExplain /\ last'.success

NextOk ==
    \/ OkCreateTable
    \/ OkInsert
    \/ OkSelect
    \/ OkUpdate
    \/ OkDelete
    \/ OkDropTable
    \/ OkExplain

SpecOk == Init /\ [][NextOk]_vars

\* --------------------------------------------- a database of two tables
\* CREATE TABLE u (id INT PRIMARY KEY, name TEXT)
ColumnsU ==
    <<Column("id", "INT", TRUE, FALSE, TRUE), Column("name", "TEXT", FALSE, FALSE, TRUE)>>

TableNames == {"t", "u"}

CreateTableStmts ==
    {CreateTableStmt("t", ColumnsT), CreateTableStmt("u", ColumnsU),
     CreateTableStmt("t", ColumnsU)}

\* INSERT INTO t (id, name) VALUES (i, n) and INSERT INTO t (name) VALUES (n)
TwoInsertValues ==
    {[c \in {"id", "name"} |-> IF c = "id" THEN i ELSE n] : i \in Ids, n \in Names}
    \cup {[c \in {"name"} |-> TextV(1)]}

TwoInsertStmts ==
    {InsertStmt(name, values) : name \in TableNames, values \in TwoInsertValues}

JoinOns == {<<"t.id", "u.id">>, <<"t.name", "u.name">>}

JoinWheres == {<<>>, <<"id", "=", IntV(1)>>, <<"name", "<", IntV(2)>>}

\* SELECT * FROM t [WHERE ...] JOIN u ON t.x = u.y
JoinStmts ==
    {SelectStmt("t", <<>>, where, "u", on) : where \in JoinWheres, on \in JoinOns}

TwoCreateTable ==
    \E stmt \in CreateTableStmts :
        /\ Run(stmt)
        /\ UNCHANGED insertsOnly

TwoInsert ==
    \E stmt \in TwoInsertStmts :
        /\ stmt.table_name \in DOMAIN tables =>
                /\ Len(tables[stmt.table_name].rows) < MaxRows
                /\ tables[stmt.table_name].next_row_id < MaxNextId
        /\ Run(stmt)
        /\ UNCHANGED insertsOnly

TwoSelect ==
    \E stmt \in JoinStmts :
        /\ Run(stmt)
        /\ UNCHANGED insertsOnly

TwoDropTable ==
    \E name \in TableNames :
        /\ Run(DropTableStmt(name))
        /\ UNCHANGED insertsOnly

NextTwoTables ==
    \/ TwoCreateTable
    \/ TwoInsert
    \/ TwoSelect
    \/ TwoDropTable
    \/ Reopen

SpecTwoTables == Init /\ [][NextTwoTables]_vars

\* ------------------------------------- two tables with required columns
\* CREATE TABLE t (id INT PRIMARY KEY NOT NULL, name TEXT NOT NULL), and the
\* same for u
ColumnsRequired ==
    <<Column("id", "INT", TRUE, FALSE, FALSE), Column("name", "TEXT", FALSE, FALSE, FALSE)>>

\* the dicts of the INSERTs: complete and well typed, a column left out,
\* both left out, a value of the wrong type in one column or in both, and a
\* column left out beside a value of the wrong type
RequiredInsertValues ==
    {[c \in {"id", "name"} |-> IF c = "id" THEN i ELSE TextV(1)] : i \in Ids}
    \cup {[c \in {"name"} |-> TextV(1)], [c \in {"id"} |-> IntV(1)], EmptyDict,
          [c \in {"id", "name"} |-> IF c = "id" THEN TextV(1) ELSE TextV(1)],
          [c \in {"id", "name"} |-> IF c = "id" THEN IntV(1) ELSE IntV(1)],
          [c \in {"id", "name"} |-> IF c = "id" THEN TextV(1) ELSE IntV(1)],
          [c \in {"id", "name"} |-> IF c = "id" THEN None ELSE TextV(1)],
          [c \in {"id"} |-> TextV(1)]}

\* SET id = 2; SET id = 2, name = 1; SET id = None
RequiredSetLists ==
    {<<<<"id", IntV(2)>>>>, <<<<"id", IntV(2)>>, <<"name", IntV(1)>>>>, <<<<"id", None>>>>}

RequiredWheres == {<<>>, <<"id", "=", IntV(1)>>}

RequiredCreateTable ==
    \E name \in TableNames :
        /\ Run(CreateTableStmt(name, ColumnsRequired))
        /\ UNCHANGED insertsOnly

RequiredInsert ==
    \E name \in TableNames, values \in RequiredInsertValues :
        /\ name \in DOMAIN tables =>
                /\ Len(tables[name].rows) < MaxRows
                /\ tables[name].next_row_id < MaxNextId
        /\ Run(InsertStmt(name, values))
        /\ UNCHANGED insertsOnly

RequiredUpdate ==
    \E name \in TableNames, updates \in RequiredSetLists, where \in RequiredWheres :
        /\ Run(UpdateStmt(name, updates, where))
        /\ UNCHANGED insertsOnly

RequiredDelete ==
    \E name \in TableNames, where \in RequiredWheres :
        /\ Run(DeleteStmt(name, where))
        /\ UNCHANGED insertsOnly

RequiredDropTable ==
    \E name \in TableNames :
        /\ Run(DropTableStmt(name))
        /\ UNCHANGED insertsOnly

NextRequired ==
    \/ RequiredCreateTable
    \/ RequiredInsert
    \/ RequiredUpdate
    \/ RequiredDelete
    \/ RequiredDropTable

SpecRequired == Init /\ [][NextRequired]_vars

\* ------------------------------------------ a process that can be killed
\* the process is running: the tables in memory are those of a Database
Alive == ~(call.op = "killed" /\ ~call.done)

LiveCreateTable == Alive /\ TwoCreateTable

LiveInsert == Alive /\ TwoInsert

\* the tables whose save a statement runs once its handler has succeeded:
\* the new table for CREATE TABLE, every table for INSERT (save_all)
SavedBy(stmt, out) ==
    IF ~out.result.success THEN {}
    ELSE IF stmt.kind = "CreateTableStmt" THEN {stmt.table_name}
    ELSE DOMAIN out.db.tables

\* what an interrupted json.dump has written: nothing, or the start of the text
PartialTexts == {"", "{", "{\n  \"schema\": {"}

\* the process is killed inside Table.save of table name, between open() and
\* the end of json.dump: the tables saved before it in the loop of save_all
\* hold their new documents (the dict's order is not kept here: any of them
\* may have come first), this one is cut short, the others are as they were
KilledInSave ==
    /\ Alive
    /\ \E stmt \in TwoInsertStmts \cup CreateTableStmts :
       \E out \in {Execute(Database, stmt)} :
       \E name \in SavedBy(stmt, out) :
       \E before \in SUBSET (SavedBy(stmt, out) \ {name}) :
       \E text \in PartialTexts :
            /\ stmt.kind = "InsertStmt" =>
                    /\ Len(tables[stmt.table_name].rows) < MaxRows
                    /\ tables[stmt.table_name].next_row_id < MaxNextId
            /\ disk' = InterruptSave([n \in DOMAIN disk |->
                                        IF n \in before THEN out.db.disk[n] ELSE disk[n]],
                                      name, text)
            /\ tables' = [n \in {} |-> NewTable(Schema("", <<>>))]
            /\ call' = Pending("killed", <<name>>)
            /\ last' = Last(stmt.kind, <<>>, Failure("killed"))
            /\ UNCHANGED <<insertsOnly, created>>

\* a new process constructs a Database on the storage directory
Restart ==
    /\ ~Alive
    /\ \E db \in {OpenDatabase(disk)} :
        /\ tables' = db.tables
        /\ disk' = db.disk
    /\ call' = Applied(call, <<>>)
    /\ last' = Last("Database", <<>>, Success("", 0))
    /\ UNCHANGED <<insertsOnly, created>>

NextKilled ==
    \/ LiveCreateTable
    \/ LiveInsert
    \/ KilledInSave
    \/ Restart

SpecKilled == Init /\ [][NextKilled]_vars

\* ------------------------------------------------ Column.validate applied
\* every column of the three types, nullable or not, keyed or not
ValidateColumns ==
    {Column("c", data_type, primary_key, unique, nullable) :
        data_type \in DataTypes, primary_key \in BOOLEAN,
        unique \in BOOLEAN, nullable \in BOOLEAN}

\* None, integers, a string and the two booleans
ValidateValues == {None, IntV(0), IntV(1), TextV(1), BoolV(TRUE), BoolV(FALSE)}

\* the database is left as constructed
IdleDatabase ==
    /\ tables = [n \in {} |-> NewTable(Schema("", <<>>))]
    /\ disk = [n \in {} |-> TableDocument(NewTable(Schema("", <<>>)))]
    /\ last = Last("", <<>>, Success("", 0))
    /\ insertsOnly = {}
    /\ created = {}

InitValidate ==
    /\ IdleDatabase
    /\ call \in {Pending("Column.validate", <<col, value>>) :
                    col \in ValidateColumns, value \in ValidateValues}

\* col.validate(value)
CallColumnValidate ==
    /\ call.op = "Column.validate"
    /\ ~call.done
    /\ call' = Applied(call, ColumnValidate(call.args[1], call.args[2]))
    /\ UNCHANGED <<tables, disk, last, insertsOnly, created>>

NextValidate == CallColumnValidate

SpecValidate == InitValidate /\ [][NextValidate]_vars

\* ------------------------------------------------- a HashIndex on its own
\* the keys and row ids of the calls: an integer, a string, None, and True,
\* which a dict takes for the key 1
IndexKeys == {IntV(1), TextV(1), BoolV(TRUE), None}

IndexIds == {0, 1}

\* a HashIndex just constructed. call.ret holds the index, the pairs
\* <<key, id>> added and not removed since, and what the last lookup returned
InitIndex ==
    /\ IdleDatabase
    /\ call = [Pending("HashIndex", <<>>) EXCEPT
                    !.ret = [index |-> EmptyIndex, recorded |-> {}, found |-> {}]]

\* the call has been made on the index: the state it leaves
IndexCalled(op, key, row_id, index, recorded, found) ==
    /\ call.op \in {"HashIndex", "add", "remove", "lookup"}
    /\ call' = [op |-> op, args |-> <<key, row_id>>, done |-> TRUE,
                ret |-> [index |-> index, recorded |-> recorded, found |-> found]]
    /\ UNCHANGED <<tables, disk, last, insertsOnly, created>>

\* index.add(key, row_id)
CallIndexAdd ==
    \E key \in IndexKeys, row_id \in IndexIds :
        IndexCalled("add", key, row_id,
                    IndexAdd(call.ret.index, key, row_id),
                    call.ret.recorded \cup {<<HashKey(key), row_id>>},
                    call.ret.found)

\* index.remove(key, row_id)
CallIndexRemove ==
    \E key \in IndexKeys, row_id \in IndexIds :
        IndexCalled("remove", key, row_id,
                    IndexRemove(call.ret.index, key, row_id),
                    call.ret.recorded \ {<<HashKey(key), row_id>>},
                    call.ret.found)

\* index.lookup(key): the ids of the list returned
CallIndexLookup ==
    \E key \in IndexKeys :
        IndexCalled("lookup", key, 0, call.ret.index, call.ret.recorded,
                    IndexLookup(call.ret.index, key))

NextIndex ==
    \/ CallIndexAdd
    \/ CallIndexRemove
    \/ CallIndexLookup

SpecIndex == InitIndex /\ [][NextIndex]_vars

\* ------------------------------------------------------ the parser applied
\* ", ".join(parts)
RECURSIVE JoinComma(_)
JoinComma(parts) ==
    IF parts = <<>> THEN ""
    ELSE IF Len(parts) = 1 THEN parts[1]
    ELSE parts[1] \o ", " \o JoinComma(Tail(parts))

\* the sequences of 1 to n members of a set
RECURSIVE SeqsUpTo(_, _)
SeqsUpTo(members, n) ==
    IF n = 0 THEN {}
    ELSE {<<m>> : m \in members}
         \cup {Append(front, m) : front \in SeqsUpTo(members, n - 1), m \in members}

\* the most column definitions of a CREATE TABLE text
MaxColumnDefs == 2

\* one column definition: its name, its type, its constraint
ColumnDefs ==
    {<<"a", "INT", constraint>> : constraint \in {"", "PRIMARY KEY", "UNIQUE", "NOT NULL"}}
    \cup {<<"b", "TEXT", constraint>> : constraint \in {"", "PRIMARY KEY", "UNIQUE"}}
    \cup {<<"keynote_primary", "TEXT", "">>, <<"unique_id", "INT", "">>}

ColumnDefText(def) ==
    def[1] \o " " \o def[2] \o (IF def[3] = "" THEN "" ELSE " " \o def[3])

\* CREATE TABLE w (<definitions>)
CreateTableText(defs) ==
    "CREATE TABLE w (" \o JoinComma([i \in 1..Len(defs) |-> ColumnDefText(defs[i])]) \o ")"

ColumnDefLists == SeqsUpTo(ColumnDefs, MaxColumnDefs)

CreateTableTexts ==
    {CreateTableText(defs) : defs \in ColumnDefLists}
    \cup {"CREATE TABLE w ()", "CREATE TABLE w (a)", "CREATE TABLE w (a FLOAT)",
          "create  table w(a int)", "CREATE TABLE w", "CREATE TABLEw (a INT)"}

\* the three statements that take a WHERE clause, up to the clause
WherePrefixes == {"SELECT * FROM t", "UPDATE t SET name = 'Bo'", "DELETE FROM t"}

\* a literal and the value it stands for
WhereLiterals == {<<"5", IntV(5)>>, <<"'Al'", StrV("Al")>>}

\* <statement> WHERE <col> <op> <literal>, with or without spaces around op
WhereText(prefix, col, operator, literal, space) ==
    prefix \o " WHERE " \o col \o space \o operator \o space \o literal

WhereTexts ==
    {WhereText(prefix, "id", Operators[k], literal[1], space) :
        prefix \in WherePrefixes, k \in 1..Len(Operators),
        literal \in WhereLiterals, space \in {" ", ""}}

\* WHERE conditions of forms other than <col> <op> <literal>
OtherConditions ==
    {"id IS NULL", "(id = 1)", "NOT id = 1", "id LIKE 'a'", "id IN (1)", "t.id = 1"}

OtherWhereTexts ==
    {prefix \o " WHERE " \o condition :
        prefix \in WherePrefixes, condition \in OtherConditions}

\* the column lists and the literal lists of the INSERT texts
InsertColumnLists == {<<>>, <<"id">>, <<"id", "name">>}

InsertLiteralLists == {<<>>, <<"1">>, <<"1", "'Al'">>, <<"2", "'a,b'">>}

\* INSERT INTO t (<columns>) VALUES (<literals>)
InsertText(columns, literals) ==
    "INSERT INTO t (" \o JoinComma(columns) \o ") VALUES (" \o JoinComma(literals) \o ")"

InsertTexts ==
    {InsertText(columns, literals) :
        columns \in InsertColumnLists, literals \in InsertLiteralLists}

\* empty and whitespace-only texts
BlankTexts == {"", " ", "   ", "\t", " \n "}

\* texts that start with no statement keyword
UnknownTexts ==
    {"TRUNCATE t", "CREATE", "CREATE INDEX i", "DROP", "DROP INDEX i",
     "SELEC * FROM t", "ALTER TABLE t", "SELECTED", "EXPLAINX", "x", ";"}

OtherTexts ==
    {"SELECT * FROM t", "SELECT id, name FROM t", "select * from t",
     "SELECT * FROM t JOIN u ON t.id = u.id",
     "SELECT * FROM t WHERE id = 1 JOIN u ON t.id = u.id",
     "SELECT FROM t", "SELECT *", "UPDATE t SET name = 'Bo'",
     "UPDATE t SET a = 1, a = 2, b = 3", "UPDATE t SET name", "UPDATE t",
     "DELETE FROM t", "DELETE t", "DROP TABLE t", "DROP TABLE",
     "EXPLAIN SELECT * FROM t", "EXPLAIN", "INSERT INTO t VALUES (1)",
     "INSERT  INTO t (id) VALUES (1)", "  DROP TABLE t  "}

SqlTexts ==
    CreateTableTexts \cup WhereTexts \cup OtherWhereTexts \cup InsertTexts
    \cup BlankTexts \cup UnknownTexts \cup OtherTexts

\* a text is about to be parsed, or about to be parsed and executed
InitParse ==
    /\ IdleDatabase
    /\ call \in {Pending("parse", <<text>>) : text \in SqlTexts}
                \cup {Pending("_execute_sql", <<text>>) : text \in CreateTableTexts}

\* parser.parse(sql)
CallParse ==
    /\ call.op = "parse"
    /\ ~call.done
    /\ call' = Applied(call, Parse(call.args[1]))
    /\ UNCHANGED <<tables, disk, last, insertsOnly, created>>

\* REPL._execute_sql(sql): the statement parse hands back is executed; a
\* ParseError is reported and nothing is executed
ExecuteSql ==
    /\ call.op = "_execute_sql"
    /\ ~call.done
    /\ \E parsed \in {Parse(call.args[1])} :
       /\ call' = Applied(call, parsed)
       /\ IF parsed.error # ""
          THEN UNCHANGED <<tables, disk, last, created>>
          ELSE \E out \in {Execute(Database, parsed.stmt)} :
                /\ tables' = out.db.tables
                /\ disk' = out.db.disk
                /\ last' = Last(parsed.stmt.kind, parsed.stmt.where_clause, out.result)
                /\ created' = Created(created, parsed.stmt)
    /\ UNCHANGED insertsOnly

NextParse == CallParse \/ ExecuteSql

SpecParse == InitParse /\ [][NextParse]_vars

\* ----------------------------------------- statements typed one by one
\* the statements typed: CREATE TABLE with a primary key that is or is not
\* declared NOT NULL, INSERTs that name the key column or leave it out, and
\* UPDATEs of the key and of the other column
ReplCreateTableTexts ==
    {"CREATE TABLE t (id INT PRIMARY KEY, name TEXT)",
     "CREATE TABLE t (id INT PRIMARY KEY NOT NULL, name TEXT)",
     "CREATE TABLE t (id PRIMARY KEY, name TEXT)"}

ReplInsertTexts ==
    {"INSERT INTO t (id, name) VALUES (1, 'Al')",
     "INSERT INTO t (id, name) VALUES (2, 'Bo')",
     "INSERT INTO t (name, id) VALUES ('Al', 2)",
     "INSERT INTO t (name) VALUES ('Al')",
     "INSERT INTO t (id) VALUES (1)",
     "INSERT INTO t (id, name) VALUES (NULL, 'Al')",
     "INSERT INTO t (id, name) VALUES (1)"}

ReplUpdateTexts ==
    {"UPDATE t SET id = 2",
     "UPDATE t SET id = 1 WHERE name = 'Al'",
     "UPDATE t SET name = 'Bo' WHERE id = 1",
     "UPDATE t SET id = NULL",
     "UPDATE t SET id = None WHERE id = 1",
     "UPDATE t SET id"}

\* {col: val for col, val in zip(stmt.columns, stmt.values)}: a column named
\* twice keeps its last value
ZipValues(columns, values) ==
    [c \in {columns[i] : i \in 1..Len(columns)} |->
        values[CHOOSE i \in 1..Len(columns) :
                    /\ columns[i] = c
                    /\ \A j \in 1..Len(columns) : columns[j] = c => j <= i]]

\* the statement as the handlers take it: an INSERT by its dict of values
Executable(stmt) ==
    IF stmt.kind = "InsertStmt"
    THEN InsertStmt(stmt.table_name, ZipValues(stmt.columns, stmt.values))
    ELSE stmt

\* REPL._execute_sql(sql), the database kept from one statement to the next
RunSql(sql) ==
    \E parsed \in {Parse(sql)} :
        /\ call' = Applied(Pending("_execute_sql", <<sql>>), parsed)
        /\ IF parsed.error # ""
           THEN UNCHANGED <<tables, disk, last, created>>
           ELSE \E stmt \in {Executable(parsed.stmt)} :
                \E out \in {Execute(Database, stmt)} :
                    /\ tables' = out.db.tables
                    /\ disk' = out.db.disk
                    /\ last' = Last(stmt.kind, stmt.where_clause, out.result)
                    /\ created' = Created(created, stmt)

ReplCreateTable ==
    \E sql \in ReplCreateTableTexts :
        /\ RunSql(sql)
        /\ UNCHANGED insertsOnly

ReplInsert ==
    \E sql \in ReplInsertTexts :
        /\ "t" \in DOMAIN tables => Len(tables["t"].rows) < MaxRows
        /\ RunSql(sql)
        /\ UNCHANGED insertsOnly

ReplUpdate ==
    \E sql \in ReplUpdateTexts :
        /\ RunSql(sql)
        /\ UNCHANGED insertsOnly

NextRepl ==
    \/ ReplCreateTable
    \/ ReplInsert
    \/ ReplUpdate

SpecRepl == Init /\ [][NextRepl]_vars

\* ------------------------------------------- two inserts at the same time
\* Table.insert run by two threads on the same table with no lock around it:
\* a thread can be suspended between any two of its statements. Each thread
\* is [pc, values, row_id, loaded, exc, alone]; alone records, at the time of
\* its check, that the other thread had added no index entry yet.
Threads == {1, 2}

Other(i) == 3 - i

Thread(values) ==
    [pc |-> "check", values |-> values, row_id |-> 0, loaded |-> 0, exc |-> "",
     alone |-> FALSE]

\* the values of the two inserts: both columns, of their types
ConcurrentValues ==
    {[c \in {"id", "name"} |-> IF c = "id" THEN i ELSE n] : i \in Ids, n \in Names}

\* table t has just been created; two threads are about to call insert
InitConcurrent ==
    /\ \E out \in {Execute(OpenDatabase([n \in {} |-> 0]),
                           CreateTableStmt("t", ColumnsT))} :
            /\ tables = out.db.tables
            /\ disk = out.db.disk
            /\ last = Last("CreateTableStmt", <<>>, out.result)
    /\ insertsOnly = {"t"}
    /\ created = {"t"}
    /\ call \in {[Pending("Table.insert, Table.insert", <<a, b>>) EXCEPT
                    !.ret = <<Thread(a), Thread(b)>>] : a, b \in ConcurrentValues}

\* thread i is at pc
ThreadAt(i, pc) == call.op = "Table.insert, Table.insert" /\ call.ret[i].pc = pc

\* thread i moves on as th, and the table becomes tbl
ThreadStep(i, th, tbl) ==
    /\ call' = [call EXCEPT !.ret[i] = th,
                            !.done = th.pc = "done" /\ call.ret[Other(i)].pc = "done"]
    /\ tables' = [tables EXCEPT !["t"] = tbl]
    /\ UNCHANGED <<disk, last, insertsOnly, created>>

\* mutant: the checks find the key taken whatever the indexes hold
InsertChecksAlwaysFail(tbl, values) == "Primary key already exists"

\* row.validate() and the primary-key and unique checks: the message of the
\* ValueError raised, "" when none is
InsertChecks(tbl, values) == TableInsert(tbl, values).exc

\* the checks of insert, up to the last index lookup
InsertCheck ==
    \E i \in Threads :
        /\ ThreadAt(i, "check")
        /\ \E exc \in {InsertChecks(tables["t"], call.ret[i].values)} :
            ThreadStep(i, [call.ret[i] EXCEPT
                                !.pc = IF exc = "" THEN "take" ELSE "done",
                                !.exc = exc,
                                !.alone = call.ret[Other(i)].pc # "done"],
                       tables["t"])

\* row_id = self.next_row_id
InsertTake ==
    \E i \in Threads :
        /\ ThreadAt(i, "take")
        /\ ThreadStep(i, [call.ret[i] EXCEPT !.pc = "load",
                                             !.row_id = tables["t"].next_row_id],
                      tables["t"])

\* self.next_row_id += 1: the attribute is read
InsertLoad ==
    \E i \in Threads :
        /\ ThreadAt(i, "load")
        /\ ThreadStep(i, [call.ret[i] EXCEPT !.pc = "store",
                                             !.loaded = tables["t"].next_row_id],
                      tables["t"])

\* self.next_row_id += 1: the sum is written
InsertStore ==
    \E i \in Threads :
        /\ ThreadAt(i, "store")
        /\ ThreadStep(i, [call.ret[i] EXCEPT !.pc = "append"],
                      [tables["t"] EXCEPT !.next_row_id = call.ret[i].loaded + 1])

\* self.rows.append(row)
InsertAppend ==
    \E i \in Threads :
        /\ ThreadAt(i, "append")
        /\ ThreadStep(i, [call.ret[i] EXCEPT !.pc = "index"],
                      [tables["t"] EXCEPT !.rows = Append(@, call.ret[i].values)])

\* the index entries are added under row_id, and row_id is returned
InsertIndex ==
    \E i \in Threads :
        /\ ThreadAt(i, "index")
        /\ ThreadStep(i, [call.ret[i] EXCEPT !.pc = "done"],
                      [tables["t"] EXCEPT
                            !.primary_key_index =
                                IndexAdd(@, call.ret[i].values["id"], call.ret[i].row_id),
                            !.unique_indexes =
                                InsertIntoUniqueIndexes(tables["t"], call.ret[i].values,
                                                        call.ret[i].row_id)])

NextConcurrent ==
    \/ InsertCheck
    \/ InsertTake
    \/ InsertLoad
    \/ InsertStore
    \/ InsertAppend
    \/ InsertIndex

SpecConcurrent == InitConcurrent /\ [][NextConcurrent]_vars

\* ------------------------------------------------------------- the claims
HasT == "t" \in DOMAIN tables

HadT == HasT /\ "t" \in DOMAIN tables'

\* the value a row holds in a column; None when it holds none
Held(tbl, p, name) == RowGet(tbl.rows[p], name)

Holds(tbl, name, value) ==
    \E p \in 1..Len(tbl.rows) : PyEq(Held(tbl, p, name), value)

\* every row's key is filed in the column's index under the row's position
FiledAtPosition(tbl, name, index) ==
    \A p \in 1..Len(tbl.rows) :
        Held(tbl, p, name) # None => p - 1 \in IndexLookup(index, Held(tbl, p, name))

IndexesAtPositions(tbl) ==
    /\ HasPrimaryKey(tbl.schema) =>
            FiledAtPosition(tbl, GetPrimaryKeyColumn(tbl.schema).name,
                            tbl.primary_key_index)
    /\ \A c \in DOMAIN tbl.unique_indexes :
            FiledAtPosition(tbl, c, tbl.unique_indexes[c])

\* C1: after any sequence of INSERT, UPDATE and DELETE statements, the
\* primary-key index and every unique index map the key value of each row
\* in the table to that row's current 0-based position.
C1_IndexPositionInvariant ==
    \A name \in DOMAIN tables : IndexesAtPositions(tables[name])

\* get_by_primary_key of each row's own key returns that row, and nothing else
RetrievableByKey(tbl) ==
    LET pk == GetPrimaryKeyColumn(tbl.schema).name IN
    \A p \in 1..Len(tbl.rows) :
        Held(tbl, p, pk) # None =>
            GetByPrimaryKey(tbl, Held(tbl, p, pk)) =
                {[kind |-> "Row", row |-> tbl.rows[p]]}

\* no index of after resolves a value that before held and after holds no more
NoGhostEntries(before, after) ==
    LET pk == GetPrimaryKeyColumn(before.schema).name IN
    /\ \A p \in 1..Len(before.rows) :
            ~Holds(after, pk, Held(before, p, pk)) =>
                IndexLookup(after.primary_key_index, Held(before, p, pk)) = {}
    /\ \A c \in DOMAIN after.unique_indexes : \A p \in 1..Len(before.rows) :
            ~Holds(after, c, Held(before, p, c)) =>
                IndexLookup(after.unique_indexes[c], Held(before, p, c)) = {}

\* C2: after a DELETE with a predicate, every remaining row is returned by
\* get_by_primary_key of its own key, and the indexes resolve no value that
\* belonged only to deleted rows.
C2_DeleteKeepsRowsRetrievable ==
    [][(last'.kind = "DeleteStmt" /\ last'.where /\ last'.success /\ HadT) =>
            /\ RetrievableByKey(tables'["t"])
            /\ NoGhostEntries(tables["t"], tables'["t"])]_vars

\* the row a successful insert appended
Appended(tbl) == tbl.rows[Len(tbl.rows)]

\* C3: an INSERT whose primary-key or unique value equals that of a row in
\* the table fails, for the primary key with "already exists", and leaves
\* rows, indexes, next_row_id (and the document) as they were: so an INSERT
\* that succeeds repeats no key held before it, and one that fails with
\* a constraint message changes nothing.
C3_DuplicateInsertRejected ==
    [][(last'.kind = "InsertStmt" /\ HadT) =>
            /\ last'.success =>
                    /\ ~Holds(tables["t"], "id", RowGet(Appended(tables'["t"]), "id"))
                    /\ ~Holds(tables["t"], "name", RowGet(Appended(tables'["t"]), "name"))
            /\ last'.message \in {"Primary key already exists",
                                  "Unique constraint violated"} =>
                    /\ ~last'.success
                    /\ tables' = tables
                    /\ disk' = disk]_vars

\* C4: execute lets no exception escape; it returns a QueryResult, and a
\* failed one carries a non-empty message.
C4_ExecuteNeverRaises ==
    /\ ~last.escaped
    /\ ~last.success => last.message # ""

\* C4 witness: a failing comparison in SELECT, raised outside any handler's
\* own try block, came back as a failed result.
C4_Witness ==
    /\ last.kind = "SelectStmt"
    /\ ~last.success
    /\ last.message = "Error: TypeError"

\* the two sequences hold the same rows the same number of times
SameRows(a, b) ==
    /\ Len(a) = Len(b)
    /\ \A i \in 1..Len(a) :
            Cardinality({j \in 1..Len(a) : a[j] = a[i]}) =
            Cardinality({j \in 1..Len(b) : b[j] = a[i]})

\* C5: saving the database and constructing a fresh Database on the same
\* directory gives every table the rows it held in memory before the save,
\* as an unordered collection.
C5_PersistenceRoundTrip ==
    [][last'.kind = "save_all; Database" =>
            /\ DOMAIN tables' = DOMAIN tables
            /\ \A name \in DOMAIN tables :
                    SameRows(tables'[name].rows, tables[name].rows)]_vars

\* C5 witness: a database reopened after a save, holding as many rows as fit.
C5_Witness ==
    /\ last.kind = "save_all; Database"
    /\ HasT
    /\ Len(tables["t"].rows) = MaxRows

\* C6: when an INSERT, UPDATE or DELETE returns success, the document of
\* every table holds exactly the table's rows in memory, so a fresh Database
\* on the directory sees the same rows.
C6_SuccessIsPersisted ==
    (last.kind \in {"InsertStmt", "UpdateStmt", "DeleteStmt"} /\ last.success) =>
        /\ DOMAIN disk = DOMAIN tables
        /\ \A name \in DOMAIN tables :
            /\ disk[name]["rows"] =
                    [i \in 1..Len(tables[name].rows) |-> RowToJson(tables[name].rows[i])]
            /\ OpenDatabase(disk).tables[name].rows = tables[name].rows

\* C6 witness: an UPDATE that changed rows has returned success.
C6_Witness ==
    /\ last.kind = "UpdateStmt"
    /\ last.success
    /\ last.n >= 1

\* C7: in a table that has seen only INSERTs since it was created empty,
\* get_by_primary_key(k) returns exactly the values inserted with key k, and
\* no row for a key never inserted; the next INSERT that succeeds is found
\* under its key with the values it gave.
C7_InsertedRowsFoundByKey ==
    "t" \in insertsOnly =>
        /\ RetrievableByKey(tables["t"])
        /\ \A k \in Ids :
                ~Holds(tables["t"], "id", k) =>
                    GetByPrimaryKey(tables["t"], k) = {[kind |-> "None", row |-> EmptyDict]}
        /\ \A stmt \in InsertStmts :
                LET out == Execute(Database, stmt) IN
                out.result.success =>
                    GetByPrimaryKey(out.db.tables["t"], stmt.values["id"]) =
                        {[kind |-> "Row", row |-> stmt.values]}

\* C7 witness: N = MaxRows inserts with distinct keys into the new table.
C7_Witness ==
    /\ "t" \in insertsOnly
    /\ last.kind = "InsertStmt"
    /\ last.success
    /\ Len(tables["t"].rows) = MaxRows

\* the index of after resolves the new value of every row whose value in the
\* column changed to the row's position, and the old value to nothing
\* unless a row still holds it
Rekeyed(before, after, name, index) ==
    \A p \in 1..Len(after.rows) :
        ~PyEq(Held(before, p, name), Held(after, p, name)) =>
            /\ p - 1 \in IndexLookup(index, Held(after, p, name))
            /\ ~Holds(after, name, Held(before, p, name)) =>
                    IndexLookup(index, Held(before, p, name)) = {}

\* C8: after a successful UPDATE that changes a row's primary-key or unique
\* value from v to w, the index resolves w to the row's current position and
\* resolves v to no row any more.
C8_UpdateRekeysIndex ==
    [][(last'.kind = "UpdateStmt" /\ last'.success /\ HadT) =>
            /\ Len(tables'["t"].rows) = Len(tables["t"].rows)
            /\ Rekeyed(tables["t"], tables'["t"], "id", tables'["t"].primary_key_index)
            /\ Rekeyed(tables["t"], tables'["t"], "name",
                       tables'["t"].unique_indexes["name"])]_vars

C10_InsertReportsPosition ==
    [][(last'.kind = "InsertStmt" /\ last'.success /\ HadT) =>
            last'.n = Len(tables["t"].rows)]_vars

\* the pairs (position in A, position in B) a join of A with B must return:
\* the A row satisfies the WHERE predicate, if any, and a.x equals b.y
JoinPairs(A, B, stmt) ==
    {p \in (1..Len(A.rows)) \X (1..Len(B.rows)) :
        /\ stmt.where_clause # <<>> =>
                RowMatches(A.rows[p[1]], stmt.where_clause) = "T"
        /\ PyEq(RowGet(A.rows[p[1]], SplitDot(stmt.join_on[1])[2]),
                RowGet(B.rows[p[2]], SplitDot(stmt.join_on[2])[2]))}

\* every column of a under 'A.<column>', every column of b under 'B.<column>'
MergedOf(a, b, A, B) ==
    [q \in {Qualify(A, c) : c \in DOMAIN a} \cup {Qualify(B, c) : c \in DOMAIN b} |->
        IF \E c \in DOMAIN a : Qualify(A, c) = q
        THEN a[CHOOSE c \in DOMAIN a : Qualify(A, c) = q]
        ELSE b[CHOOSE c \in DOMAIN b : Qualify(B, c) = q]]

\* data holds one merged row for each pair, and no other row
OneRowPerPair(data, A, B, stmt) ==
    LET pairs == JoinPairs(A, B, stmt)
        Of(p) == MergedOf(A.rows[p[1]], B.rows[p[2]], stmt.table_name, stmt.join_table)
    IN /\ Len(data) = Cardinality(pairs)
       /\ \A p \in pairs :
            Cardinality({k \in 1..Len(data) : data[k] = Of(p)})
                = Cardinality({r \in pairs : Of(r) = Of(p)})

\* C11: SELECT * FROM A [WHERE ...] JOIN B ON A.x = B.y returns exactly one
\* merged row for every pair of an A row (satisfying the WHERE predicate when
\* there is one) and a B row with a.x equal to b.y, and no other row; the
\* merged row carries a's columns as 'A.<column>' and b's as 'B.<column>'.
C11_JoinCorrectness ==
    (TableNames \subseteq DOMAIN tables) =>
        \A stmt \in JoinStmts :
            LET out == Execute(Database, stmt) IN
            /\ out.result.success <=>
                    (stmt.where_clause # <<>> =>
                        ~FilterRaises(tables["t"].rows, stmt.where_clause))
            /\ out.result.success =>
                    OneRowPerPair(out.result.data, tables["t"], tables["u"], stmt)

\* C11 witness: a join was executed where one row of t pairs with both rows
\* of u, and where the WHERE predicate keeps one row of t and drops another.
C11_Witness ==
    /\ last.kind = "SelectStmt"
    /\ last.success
    /\ TableNames \subseteq DOMAIN tables
    /\ \E stmt \in JoinStmts :
        /\ stmt.where_clause = <<>>
        /\ \E i \in 1..Len(tables["t"].rows) :
                {<<i, 1>>, <<i, 2>>} \subseteq JoinPairs(tables["t"], tables["u"], stmt)
    /\ \E stmt \in JoinStmts :
        /\ stmt.where_clause # <<>>
        /\ Len(tables["t"].rows) = 2
        /\ Cardinality({p[1] : p \in JoinPairs(tables["t"], tables["u"], stmt)}) = 1

\* an empty table of these columns: no rows, nothing filed in any index
IsEmptyTable(tbl, name, columns) ==
    /\ tbl.schema = Schema(name, columns)
    /\ tbl.rows = <<>>
    /\ tbl.next_row_id = 0
    /\ tbl.primary_key_index = EmptyIndex
    /\ \A c \in DOMAIN tbl.unique_indexes : tbl.unique_indexes[c] = EmptyIndex

\* C12: CREATE TABLE of a name that exists fails and leaves the table (its
\* schema, rows and indexes) and every document as they were; CREATE TABLE of
\* a new name registers an empty table and writes its document at once, so
\* that a fresh Database on the directory holds the empty table.
C12_CreateTableExistingFails ==
    \A stmt \in CreateTableStmts :
        LET out == Execute(Database, stmt)
            name == stmt.table_name
        IN IF name \in DOMAIN tables
           THEN /\ ~out.result.success
                /\ out.db.tables = tables
                /\ out.db.disk = disk
           ELSE /\ out.result.success
                /\ DOMAIN out.db.tables = (DOMAIN tables) \cup {name}
                /\ IsEmptyTable(out.db.tables[name], name, stmt.columns)
                /\ name \in DOMAIN out.db.disk
                /\ out.db.disk[name].rows = <<>>
                /\ IsEmptyTable(OpenDatabase(out.db.disk).tables[name],
                                name, stmt.columns)

\* C12 witness: CREATE TABLE has just failed on a table that holds a row,
\* and the other table, created before, is still empty.
C12_Witness ==
    /\ last.kind = "CreateTableStmt"
    /\ ~last.success
    /\ TableNames \subseteq DOMAIN tables
    /\ \E n \in TableNames : Len(tables[n].rows) >= 1
    /\ \E n \in TableNames : IsEmptyTable(tables[n], n, tables[n].schema.columns)

\* C13: after any sequence of CREATE TABLE and DROP TABLE statements (and
\* inserts between them) the database holds exactly the names created and
\* not dropped since, and so does a fresh Database on the same directory: a
\* dropped table's document is gone, and its name can be created again as an
\* empty table.
C13_TablesAreCreatedNotDropped ==
    /\ DOMAIN tables = created
    /\ DOMAIN OpenDatabase(disk).tables = created
    /\ \A name \in TableNames \ created :
        /\ name \notin DOMAIN disk
        /\ \A stmt \in CreateTableStmts :
            stmt.table_name = name =>
                LET out == Execute(Database, stmt) IN
                /\ out.result.success
                /\ IsEmptyTable(out.db.tables[name], name, stmt.columns)

\* C13 witness: one of two tables has just been dropped; the other, which
\* holds a row, stays.
C13_Witness ==
    /\ last.kind = "DropTableStmt"
    /\ last.success
    /\ Cardinality(created) = 1
    /\ \E name \in created : Len(tables[name].rows) >= 1

\* the statements that name a table: the left table, and for a join the right
NamingStmts ==
    TwoInsertStmts \cup SelectStmts \cup JoinStmts \cup UpdateStmts \cup DeleteStmts
    \cup {DropTableStmt(name) : name \in TableNames}

NamesMissingTable(stmt) ==
    \/ stmt.table_name \notin DOMAIN tables
    \/ stmt.join_table # "" /\ stmt.join_table \notin DOMAIN tables

\* the message texts that contain 'not found'
ContainsNotFound(message) ==
    message \in {"Table not found", "Error: Table not found", "Column not found"}

\* a SELECT on an existing table whose WHERE comparison raises on some row
WhereRaisesFirst(stmt) ==
    /\ stmt.kind = "SelectStmt"
    /\ stmt.table_name \in DOMAIN tables
    /\ stmt.where_clause # <<>>
    /\ FilterRaises(tables[stmt.table_name].rows, stmt.where_clause)

UnknownColumnStmts ==
    {InsertStmt("t", [c \in {"id", "name", "zip"} |->
                        IF c = "id" THEN IntV(2)
                        ELSE IF c = "name" THEN TextV(2) ELSE IntV(1)]),
     UpdateStmt("t", <<<<"zip", IntV(1)>>>>, <<>>),
     UpdateStmt("t", <<<<"name", TextV(2)>>, <<"zip", IntV(1)>>>>, <<>>)}

\* C15: an INSERT whose column list, or an UPDATE whose SET list, names a
\* column that is not in the table's schema returns success=false and
\* leaves the table's rows and indexes unchanged.
C15_UnknownColumnRejected ==
    "t" \in DOMAIN tables =>
        \A stmt \in UnknownColumnStmts :
            LET out == Execute(Database, stmt) IN
            /\ ~out.result.success
            /\ out.db.tables["t"].rows = tables["t"].rows
            /\ out.db.tables["t"].primary_key_index = tables["t"].primary_key_index
            /\ out.db.tables["t"].unique_indexes = tables["t"].unique_indexes

\* value op literal: an ordering holds only between two numbers or two strings
StandsIn(value, op, literal) ==
    IF op = "=" THEN PyEq(value, literal)
    ELSE IF op = "!=" THEN ~PyEq(value, literal)
    ELSE /\ Orderable(value, literal)
         /\ IF op = "<" THEN value.v < literal.v
            ELSE IF op = ">" THEN value.v > literal.v
            ELSE IF op = "<=" THEN value.v <= literal.v
            ELSE value.v >= literal.v

\* SELECT * | name | name, id FROM t [WHERE ...], each literal of its column's type
PlainSelectStmts ==
    {SelectStmt("t", columns, where, "", <<>>) :
        columns \in {<<>>, <<"name">>, <<"name", "id">>},
        where \in {<<>>, <<"id", "=", IntV(1)>>, <<"name", "!=", TextV(1)>>,
                   <<"id", "<", IntV(2)>>, <<"name", ">=", TextV(2)>>}}

\* C16: a SELECT without a predicate returns every row in position order; with
\* a predicate (column, op, literal) it returns exactly the rows whose column
\* value stands in relation op to the literal, in position order; each result
\* row has exactly the named columns as keys, or all of the row's columns
\* when none is named.
C16_SelectReturnsMatchingRows ==
    "t" \in DOMAIN tables =>
        \A stmt \in PlainSelectStmts :
            LET out == Execute(Database, stmt)
                where == stmt.where_clause
                data == out.result.data
                expected == SelectSeq(tables["t"].rows, LAMBDA row :
                                where # <<>> =>
                                    StandsIn(RowGet(row, where[1]), where[2], where[3]))
            IN /\ out.result.success
               /\ Len(data) = Len(expected)
               /\ \A k \in 1..Len(expected) :
                    IF stmt.columns = <<>>
                    THEN data[k] = expected[k]
                    ELSE /\ DOMAIN data[k] =
                                {stmt.columns[i] : i \in 1..Len(stmt.columns)}
                         /\ \A c \in DOMAIN data[k] : data[k][c] = RowGet(expected[k], c)

\* the value's runtime type is exactly the declared type
ExactType(data_type, value) ==
    \/ data_type = "INT" /\ value.t = "int"
    \/ data_type = "TEXT" /\ value.t = "str"
    \/ data_type = "BOOLEAN" /\ value.t = "bool"

\* C17: Column.validate accepts a value iff it is null and the column is
\* nullable, or its runtime type is exactly the column's declared type (an
\* integer for INT, a string for TEXT, a boolean for BOOLEAN), with no
\* widening between the three types in either direction.
C17_ValidateExactType ==
    (call.op = "Column.validate" /\ call.done) =>
        (call.ret <=>
            \/ call.args[2] = None /\ call.args[1].nullable
            \/ call.args[2] # None /\ ExactType(call.args[1].data_type, call.args[2]))

\* the positions of the columns marked primary_key
PrimaryKeys(columns) == {i \in 1..Len(columns) : columns[i].primary_key}

\* the positions of the definitions that declare PRIMARY KEY
DeclaredKeys(defs) == {i \in 1..Len(defs) : defs[i][3] = "PRIMARY KEY"}

\* a CREATE TABLE text built from defs has been parsed and executed with
\* success
CreatedFrom(defs) ==
    /\ call.op = "_execute_sql"
    /\ call.done
    /\ call.args[1] = CreateTableText(defs)
    /\ call.ret.error = ""
    /\ last.kind = "CreateTableStmt"
    /\ last.success

\* C18: for every CREATE TABLE statement the parser accepts and the engine
\* executes, the schema of the resulting table has at most one column marked
\* primary_key (exactly one if one was declared), its column names are
\* unique, and its columns come in the order they were declared.
C18_CreateTableSchema ==
    \A defs \in ColumnDefLists :
        CreatedFrom(defs) =>
            LET columns == tables["w"].schema.columns IN
            /\ Cardinality(PrimaryKeys(columns)) <= 1
            /\ DeclaredKeys(defs) # {} => Cardinality(PrimaryKeys(columns)) = 1
            /\ \A i, j \in 1..Len(columns) :
                    columns[i].name = columns[j].name => i = j
            /\ [i \in 1..Len(columns) |-> columns[i].name]
                    = [i \in 1..Len(defs) |-> defs[i][1]]

\* the text just parsed
ParsedText(text) == call.op = "parse" /\ call.done /\ call.args[1] = text

\* C19: for each operator op of =, !=, <, >, <=, >=, parsing a SELECT, an
\* UPDATE or a DELETE whose WHERE clause is <col> op <literal> yields a
\* statement whose predicate is exactly (col, op, parsed literal); the
\* two-character operators <= and >= are recognised as such.
C19_WhereOperatorsParsed ==
    \A prefix \in WherePrefixes, k \in 1..Len(Operators),
       literal \in WhereLiterals, space \in {" ", ""} :
        ParsedText(WhereText(prefix, "id", Operators[k], literal[1], space)) =>
            /\ call.ret.error = ""
            /\ call.ret.stmt.where_clause = <<"id", Operators[k], literal[2]>>

\* every character of the text is whitespace
IsBlank(text) == \A i \in 1..Len(text) : IsSpace(At(text, i))

\* the seven statement keywords, word by word
StatementKeywords ==
    {<<"CREATE", "TABLE">>, <<"INSERT">>, <<"SELECT">>, <<"UPDATE">>,
     <<"DELETE">>, <<"DROP", "TABLE">>, <<"EXPLAIN">>}

\* the first words of the text are one of the statement keywords
StartsWithKeyword(text) ==
    LET words == SplitWhitespace(Upper(text)) IN
    \E keyword \in StatementKeywords :
        Len(words) >= Len(keyword) /\ SubSeq(words, 1, Len(keyword)) = keyword

\* parse raised ParseError and handed back no statement
ParseFailed == call.ret.error = "ParseError" /\ call.ret.stmt = NoStmt

\* C20: parse fails with ParseError, and returns no statement, when the text
\* is empty or whitespace-only, when it starts with none of the seven
\* statement keywords, and when the column count of an INSERT differs from
\* its literal count.
C20_ParseErrors ==
    (call.op = "parse" /\ call.done) =>
        /\ IsBlank(call.args[1]) => ParseFailed
        /\ ~StartsWithKeyword(call.args[1]) => ParseFailed
        /\ \A columns \in InsertColumnLists, literals \in InsertLiteralLists :
                (/\ Len(columns) # Len(literals)
                 /\ call.args[1] = InsertText(columns, literals)) => ParseFailed

\* an INSERT of two columns and one literal has just been refused
C20_Witness ==
    /\ ParsedText(InsertText(<<"id", "name">>, <<"1">>))
    /\ call.ret.error = "ParseError"
    /\ call.ret.message = "Column and value count mismatch"
    /\ tables = [n \in {} |-> NewTable(Schema("", <<>>))]

\* the index resolves no value at all
ResolvesNothing(index, values) == \A v \in values : IndexLookup(index, v) = {}

\* C21: a DELETE without a predicate removes every row together with every
\* row's index entries: afterwards the table has no rows, its primary-key
\* and unique indexes resolve no value, so that a key used before can be
\* inserted again, and the reported count is the number of rows held before.
C21_DeleteAllClearsIndexes ==
    [][(last'.kind = "DeleteStmt" /\ ~last'.where /\ last'.success /\ HadT) =>
            /\ tables'["t"].rows = <<>>
            /\ last'.n = Len(tables["t"].rows)
            /\ ResolvesNothing(tables'["t"].primary_key_index, Ids)
            /\ ResolvesNothing(tables'["t"].unique_indexes["name"], Names)
            /\ \A p \in 1..Len(tables["t"].rows) :
                    Execute([tables |-> tables', disk |-> disk'],
                            InsertStmt("t", tables["t"].rows[p])).result.success]_vars

\* no two rows of the table hold the same non-null value in the column
NoTwoRowsHold(tbl, name) ==
    \A p, q \in 1..Len(tbl.rows) :
        (p # q /\ Held(tbl, p, name) # None) =>
            ~PyEq(Held(tbl, p, name), Held(tbl, q, name))

\* C22: after any sequence of successful and failed INSERT, UPDATE and
\* DELETE statements on a table with a primary key, no two rows of the table
\* hold the same primary-key value, and no two rows hold the same value in a
\* unique column.
C22_KeysStayUnique ==
    HasT =>
        /\ NoTwoRowsHold(tables["t"], GetPrimaryKeyColumn(tables["t"].schema).name)
        /\ \A c \in DOMAIN tables["t"].unique_indexes : NoTwoRowsHold(tables["t"], c)

\* C23: failure atomicity. A statement for which execute returns
\* success=false leaves the rows, the index contents and the next_row_id of
\* every table in memory, and every persisted document, exactly as they were
\* before the statement; an UPDATE that fails validation on one of several
\* SET columns or on one of several rows changes nothing.
C23_FailureAtomicity ==
    [][~last'.success => (tables' = tables /\ disk' = disk)]_vars

\* every statement drawn for table t
AllStmts ==
    InsertStmts \cup SelectStmts \cup UpdateStmts \cup DeleteStmts
    \cup {CreateTableStmt("t", ColumnsT), DropTableStmt("t"), ExplainStmt}

\* the statement gives the same success flag and the same result rows on the
\* two databases
SameOutcome(live, fresh, stmt) ==
    \E a \in {Execute(live, stmt).result} : \E b \in {Execute(fresh, stmt).result} :
        a.success = b.success /\ a.data = b.data

\* C24: after any sequence of statements that each returned success=true,
\* any further statement gives on the live in-memory Database the same
\* success flag and the same result rows as on a fresh Database constructed
\* on the same storage directory.
C24_LiveEqualsReloaded ==
    \A stmt \in AllStmts : SameOutcome(Database, OpenDatabase(disk), stmt)

\* the index files exactly the positions of the rows holding each value
FiledExactly(tbl, name, index, values) ==
    \A v \in values :
        IndexLookup(index, v) =
            {p - 1 : p \in {q \in 1..Len(tbl.rows) : Held(tbl, q, name) = v}}

\* C25: immediately after a table is loaded from its persisted document,
\* every row with a non-null primary-key or unique value is mapped by the
\* corresponding index to the row's position in file order, whatever the
\* indexes of the table in memory held when the document was saved; the
\* stored next_row_id is carried over unchanged.
C25_LoadRebuildsIndexes ==
    [][last'.kind \in {"Database", "save_all; Database"} =>
            \A name \in DOMAIN tables' :
                /\ IndexesAtPositions(tables'[name])
                /\ FiledExactly(tables'[name], "id", tables'[name].primary_key_index, Ids)
                /\ FiledExactly(tables'[name], "name",
                                tables'[name].unique_indexes["name"], Names)
                /\ tables'[name].rows =
                        [i \in 1..Len(disk'[name]["rows"]) |->
                            RowFromJson(disk'[name]["rows"][i])]
                /\ tables'[name].next_row_id = disk'[name]["next_row_id"]]_vars

\* C25 witness: a table has just been loaded whose one row was inserted
\* second, so that its position is no longer the id it was inserted under.
C25_Witness ==
    /\ last.kind = "Database"
    /\ HasT
    /\ Len(tables["t"].rows) = 1
    /\ tables["t"].next_row_id = 2
    /\ IndexLookup(tables["t"].primary_key_index, Held(tables["t"], 1, "id")) = {0}

\* the UPDATE statements drawn, and those that set both columns to values
\* of their types
FrameUpdateStmts ==
    UpdateStmts
    \cup {UpdateStmt("t", <<<<"id", i>>, <<"name", n>>>>, where) :
            i \in Ids, n \in Names, where \in WhereClauses}

\* the columns a SET list names, and the literal it gives a column
SetColumns(updates) == {updates[i][1] : i \in 1..Len(updates)}

LiteralOf(updates, c) ==
    updates[CHOOSE i \in 1..Len(updates) :
                updates[i][1] = c /\ \A j \in (i + 1)..Len(updates) : updates[j][1] # c][2]

\* the row with exactly the SET columns set to their literals
RowAfterSet(row, updates) ==
    [c \in (DOMAIN row) \cup SetColumns(updates) |->
        IF c \in SetColumns(updates) THEN LiteralOf(updates, c) ELSE row[c]]

\* the positions of the rows the statement addresses: those that satisfy its
\* predicate, every row when it has none
Addressed(rows, where) ==
    {p \in 1..Len(rows) : where = <<>> \/ RowMatches(rows[p], where) = "T"}

\* C26: an UPDATE with a predicate that succeeds changes exactly the rows
\* that satisfied the predicate before the statement, setting exactly the
\* SET columns to the given literals; every other row and every other
\* column is unchanged, the row count and the row order are unchanged, and
\* the reported count is the number of matching rows; without a predicate
\* every row is updated.
C26_UpdateFrame ==
    HasT =>
        \A stmt \in FrameUpdateStmts :
            \E out \in {Execute(Database, stmt)} :
                out.result.success =>
                    LET rows == tables["t"].rows
                        after == out.db.tables["t"].rows
                    IN /\ Len(after) = Len(rows)
                       /\ \A p \in 1..Len(rows) :
                            after[p] =
                                IF p \in Addressed(rows, stmt.where_clause)
                                THEN RowAfterSet(rows[p], stmt.updates)
                                ELSE rows[p]
                       /\ out.result.n = Cardinality(Addressed(rows, stmt.where_clause))

\* C26 witness: an UPDATE with a predicate has changed one row of two.
C26_Witness ==
    /\ last.kind = "UpdateStmt"
    /\ last.where
    /\ last.success
    /\ last.n = 1
    /\ HasT
    /\ Len(tables["t"].rows) = 2

\* parse handed back a statement carrying a predicate, or raised ParseError
PredicateOrParseError ==
    \/ call.ret.error = "ParseError"
    \/ call.ret.error = "" /\ call.ret.stmt.where_clause # <<>>

\* C27: a statement whose text contains a WHERE clause is never executed as
\* if it had none: parsing a SELECT, an UPDATE or a DELETE with a WHERE
\* clause either yields a statement carrying a predicate or fails with
\* ParseError, so that a DELETE or an UPDATE with an unsupported WHERE form
\* never affects all rows of the table.
C27_WhereNeverDropped ==
    \A text \in WhereTexts \cup OtherWhereTexts :
        ParsedText(text) => PredicateOrParseError

\* both inserts have returned or raised
BothDone == call.op = "Table.insert, Table.insert" /\ call.done

\* the two inserts carry the same primary-key value
SameKey == call.args[1]["id"] = call.args[2]["id"]

\* both threads made their checks before either added an index entry
BothCheckedAlone == call.ret[1].alone /\ call.ret[2].alone

\* table t holds two rows with the same primary-key value
TwoRowsOneKey ==
    \E p, q \in 1..Len(tables["t"].rows) :
        p # q /\ Held(tables["t"], p, "id") = Held(tables["t"], q, "id")

\* C28: without mutual exclusion, two concurrent INSERTs carrying the same
\* primary-key value both succeed when both make the uniqueness check before
\* either adds its index entry: the table then ends with two rows holding
\* the same primary key; and only then, for an insert that checks after the
\* other's entry was added is refused.
C28_ConcurrentInsertsDuplicate ==
    (BothDone /\ SameKey) =>
        /\ BothCheckedAlone =>
                /\ call.ret[1].exc = ""
                /\ call.ret[2].exc = ""
                /\ Len(tables["t"].rows) = 2
                /\ TwoRowsOneKey
        /\ ~BothCheckedAlone =>
                /\ \E i \in Threads :
                        /\ call.ret[i].exc = ""
                        /\ call.ret[Other(i)].exc = "Primary key already exists"
                /\ Len(tables["t"].rows) = 1

\* C28 witness: both inserts of the same key succeeded, under the same row
\* id, and the table holds the key twice.
C28_Witness ==
    /\ BothDone
    /\ SameKey
    /\ call.ret[1].exc = ""
    /\ call.ret[2].exc = ""
    /\ call.ret[1].row_id = call.ret[2].row_id
    /\ TwoRowsOneKey


\* table t is held before and after the step: it was not dropped by it
TableLives == "t" \in DOMAIN tables /\ "t" \in DOMAIN tables'

\* the step is an INSERT that returned success; last'.n is the id it reported
InsertReported == last'.kind = "InsertStmt" /\ last'.success

\* C29: from a table's creation until it is dropped, the row ids reported
\* by successful INSERTs are strictly increasing and never reused: the next
\* id to be given never goes down in any step that keeps the table (UPDATE,
\* DELETE with or without predicate, failed INSERT, save and reload into a
\* fresh Database), a successful INSERT reports exactly that id, and leaves
\* the next id above the one it reported.
C29_RowIdsIncrease ==
    [][TableLives =>
            /\ tables'["t"].next_row_id >= tables["t"].next_row_id
            /\ InsertReported =>
                    /\ last'.n = tables["t"].next_row_id
                    /\ tables'["t"].next_row_id > last'.n]_vars

\* C29 witness: an INSERT reported id 2 into a table holding one row: the
\* rows of ids 0 and 1 were deleted in between, and their ids not given again.
C29_Witness ==
    /\ last.kind = "InsertStmt"
    /\ last.success
    /\ last.n = 2
    /\ "t" \in DOMAIN tables
    /\ Len(tables["t"].rows) = 1


\* every row of tbl holds a value other than None for the primary-key column
KeyHeldByEveryRow(tbl) ==
    LET pk_col == GetPrimaryKeyColumn(tbl.schema) IN
    pk_col # NoColumn =>
        \A p \in 1..Len(tbl.rows) : RowGet(tbl.rows[p], pk_col.name) # None

\* C30: after any sequence of CREATE TABLE, INSERT and UPDATE statements
\* produced by the parser, every row of a table whose schema declares a
\* primary-key column holds a non-null value for that column.
C30_PrimaryKeyNeverNull ==
    \A name \in DOMAIN tables : KeyHeldByEveryRow(tables[name])


\* C31: after any sequence of INSERT, UPDATE and DELETE statements,
\* successful or failed, every row held in a table satisfies Row.validate
\* against the table's schema: every non-nullable column is present, and the
\* value of every present schema column is accepted by Column.validate.
C31_RowsStayValid ==
    \A name \in DOMAIN tables :
        \A p \in 1..Len(tables[name].rows) :
            /\ RowValidate(tables[name].rows[p], tables[name].schema)
            /\ \A i \in 1..Len(tables[name].schema.columns) :
                LET col == tables[name].schema.columns[i] IN
                /\ ~col.nullable => col.name \in DOMAIN tables[name].rows[p]
                /\ col.name \in DOMAIN tables[name].rows[p] =>
                        ColumnValidate(col, tables[name].rows[p][col.name])

\* C31 witness: an UPDATE was refused on its second assignment after its
\* first was written into a row, and the table holds that row.
C31_Witness ==
    /\ last.kind = "UpdateStmt"
    /\ ~last.success
    /\ last.message = "Invalid value for column"
    /\ \E name \in DOMAIN tables :
        /\ tables[name].rows # <<>>
        /\ TableDocument(tables[name]) # disk[name]


\* the INSERT, UPDATE, DELETE and DROP TABLE statements on table name
StatementsOn(name) ==
    {InsertStmt(name, values) : values \in RequiredInsertValues}
    \cup {UpdateStmt(name, updates, where) :
            updates \in RequiredSetLists, where \in RequiredWheres}
    \cup {DeleteStmt(name, where) : where \in RequiredWheres}
    \cup {DropTableStmt(name)}

\* executing stmt on db leaves table other as it is, in memory and on disk
LeavesAlone(db, stmt, other) ==
    \E out \in {Execute(db, stmt)} :
        /\ other \in DOMAIN out.db.tables
        /\ out.db.tables[other] = db.tables[other]
        /\ other \in DOMAIN out.db.disk
        /\ out.db.disk[other] = db.disk[other]

\* C32: an INSERT, UPDATE or DELETE on table T leaves the rows, indexes,
\* next_row_id and persisted row content of every other table unchanged, and
\* a DROP TABLE of T leaves every other table and its document unchanged.
C32_OtherTablesUntouched ==
    \A name \in TableNames, other \in DOMAIN tables :
        other # name => \A stmt \in StatementsOn(name) : LeavesAlone(Database, stmt, other)


\* the ON equalities written left table first, on one column name or on two
OnEqualities == JoinOns \cup {<<"t.id", "u.name">>, <<"t.name", "u.id">>}

\* ON B.y = A.x for ON A.x = B.y
Swapped(on) == <<on[2], on[1]>>

\* SELECT <columns> FROM t JOIN u ON <on>
JoinSelect(columns, on) == SelectStmt("t", columns, <<>>, "u", on)

\* C33: the result of a joined SELECT does not depend on the order in which
\* the two sides of the ON equality are written: ON A.x = B.y and
\* ON B.y = A.x return the same merged rows under the same qualified keys.
C33_JoinOnSymmetric ==
    (TableNames \subseteq DOMAIN tables) =>
        \A on \in OnEqualities :
            Execute(Database, JoinSelect(<<>>, on)).result
                = Execute(Database, JoinSelect(<<>>, Swapped(on))).result


\* the pairs <<p, q>> of a row of A and a row of B with a[x] == b[y], A's
\* rows outermost, as positions
MatchingPairs(A, B, x, y) ==
    LET all == [k \in 1..(Len(A) * Len(B)) |->
                    <<((k - 1) \div Len(B)) + 1, ((k - 1) % Len(B)) + 1>>]
    IN SelectSeq(all, LAMBDA pq : PyEq(RowGet(A[pq[1]], x), RowGet(B[pq[2]], y)))

\* the names projected: unqualified, qualified by either table, and unknown
ProjectedNames == <<"id", "name", "t.id", "t.name", "u.id", "u.name", "zip">>

\* C34: after a join, an unqualified column name that exists in both tables
\* yields the value of the left (FROM) table's row, a qualified name
\* 'table.column' yields the value of that table's row, and a name found
\* under no key yields null.
C34_JoinProjection ==
    (TableNames \subseteq DOMAIN tables) =>
        \A on \in OnEqualities :
            LET A == tables["t"].rows
                B == tables["u"].rows
                pairs == MatchingPairs(A, B, SplitDot(on[1])[2], SplitDot(on[2])[2])
                result == Execute(Database, JoinSelect(ProjectedNames, on)).result
            IN /\ result.success
               /\ Len(result.data) = Len(pairs)
               /\ \A k \in 1..Len(pairs) :
                    LET a == A[pairs[k][1]]
                        b == B[pairs[k][2]]
                    IN /\ result.data[k]["id"] = RowGet(a, "id")
                       /\ result.data[k]["name"] = RowGet(a, "name")
                       /\ result.data[k]["t.id"] = RowGet(a, "id")
                       /\ result.data[k]["t.name"] = RowGet(a, "name")
                       /\ result.data[k]["u.id"] = RowGet(b, "id")
                       /\ result.data[k]["u.name"] = RowGet(b, "name")
                       /\ result.data[k]["zip"] = None


\* EXPLAIN of three query texts
ExplainStmts ==
    {ExplainStmtOf(query) : query \in {"SELECT * FROM t", "DELETE FROM t", "x"}}

Killed == call.op = "killed" /\ ~call.done

\* a Database constructed on files holds name as its document describes it
LoadedAsSaved(files, name) ==
    \E db \in {OpenDatabase(files)} :
        /\ name \in DOMAIN db.tables
        /\ db.tables[name].schema = SchemaFromDict(files[name].schema)
        /\ db.tables[name].next_row_id = files[name].next_row_id
        /\ db.tables[name].rows =
                [i \in 1..Len(files[name].rows) |-> RowFromJson(files[name].rows[i])]

\* C36: Table.save empties a table's file before it writes the document, so
\* a process killed between the two leaves that file unreadable; a Database
\* constructed on a directory that holds an unreadable file does not fail:
\* it holds no table of that name, and it holds every table whose file is
\* readable, as its document describes it.
C36_InterruptedSave ==
    /\ Killed => /\ call.args[1] \in DOMAIN disk
                 /\ ~Readable(disk[call.args[1]])
    /\ DOMAIN OpenDatabase(disk).tables = {n \in DOMAIN disk : Readable(disk[n])}
    /\ \A n \in DOMAIN disk : Readable(disk[n]) => LoadedAsSaved(disk, n)
    /\ (call.op = "killed" /\ call.done /\ last.kind = "Database") =>
            tables = OpenDatabase(disk).tables

\* C36 witness: a new process has started after a save of one table was
\* interrupted; that table is not held, and the other, which holds a row, is.
C36_Witness ==
    /\ call.op = "killed"
    /\ call.done
    /\ last.kind = "Database"
    /\ call.args[1] \notin DOMAIN tables
    /\ ~Readable(disk[call.args[1]])
    /\ \E n \in DOMAIN tables : Len(tables[n].rows) >= 1


\* values lacks a non-nullable column of schema
OmitsRequired(schema, values) ==
    \E i \in 1..Len(schema.columns) :
        ~schema.columns[i].nullable /\ schema.columns[i].name \notin DOMAIN values

\* the first column of schema, in its order, whose value in values is not of
\* the column's type
FirstOffending(schema, values) ==
    LET Offends(i) == /\ schema.columns[i].name \in DOMAIN values
                      /\ ~ColumnValidate(schema.columns[i], values[schema.columns[i].name])
    IN IF \E i \in 1..Len(schema.columns) : Offends(i)
       THEN schema.columns[CHOOSE i \in 1..Len(schema.columns) :
                                Offends(i) /\ \A j \in 1..(i - 1) : ~Offends(j)].name
       ELSE ""

\* C37: an INSERT that omits a non-nullable column fails with a 'Missing
\* required column(s)' message that names each missing column and no other,
\* whatever the types of the values it does give; an INSERT that gives every
\* required column but a value of the wrong type fails with an 'Invalid type
\* for column' message that names the first offending column; in both cases
\* no row is appended and no index or next_row_id changes.
C37_InsertValidationMessages ==
    \A name \in DOMAIN tables, values \in RequiredInsertValues :
        \E out \in {Execute(Database, InsertStmt(name, values))} :
        LET schema == tables[name].schema IN
        IF OmitsRequired(schema, values)
        THEN /\ ~out.result.success
             /\ StartsWith(out.result.message, "Missing required column(s)")
             /\ \A i \in 1..Len(schema.columns) :
                    LET col == schema.columns[i] IN
                    Contains(out.result.message, col.name \o " (" \o col.data_type \o ")")
                        <=> (~col.nullable /\ col.name \notin DOMAIN values)
             /\ out.db = Database
        ELSE FirstOffending(schema, values) # "" =>
             /\ ~out.result.success
             /\ StartsWith(out.result.message, "Invalid type for column")
             /\ \A i \in 1..Len(schema.columns) :
                    Contains(out.result.message, "'" \o schema.columns[i].name \o "'")
                        <=> schema.columns[i].name = FirstOffending(schema, values)
             /\ out.db = Database

\* C37 witness: an INSERT that left the name column out was refused for it,
\* on a table that holds a row.
C37_Witness ==
    /\ last.kind = "InsertStmt"
    /\ ~last.success
    /\ last.message = "Missing required column(s): name (TEXT)"
    /\ \E name \in DOMAIN tables : Len(tables[name].rows) >= 1


\* C38: for every successful SELECT, stats.rows_scanned is the left table's
\* total row count, whether or not a predicate filtered it, plus the join
\* table's row count when there is a join, and stats.rows_returned is the
\* number of rows of the result data.
C38_SelectStats ==
    \A stmt \in JoinStmts \cup SelectStmts :
        \E out \in {Execute(Database, stmt)} :
            out.result.success =>
                /\ out.result.stats.rows_scanned =
                        Len(tables[stmt.table_name].rows)
                        + IF stmt.join_table # ""
                          THEN Len(tables[stmt.join_table].rows) ELSE 0
                /\ out.result.stats.rows_returned = Len(out.result.data)

\* C38 witness: a join with a predicate has returned one row from a left
\* table of two rows and a join table that holds rows.
C38_Witness ==
    /\ last.kind = "SelectStmt"
    /\ last.success
    /\ last.where
    /\ last.n = 1
    /\ TableNames \subseteq DOMAIN tables
    /\ Len(tables["t"].rows) = 2
    /\ Len(tables["u"].rows) >= 1


\* the ids added under key and not removed since
RecordedUnder(key) == {id \in IndexIds : <<HashKey(key), id>> \in call.ret.recorded}

\* C39: after any sequence of add(key, id) and remove(key, id) calls on a
\* HashIndex, lookup(key) returns exactly the ids added under key and not
\* removed since; removing an id that is not recorded under the key changes
\* nothing; and a key whose last id was removed is absent from the index,
\* lookup returning the empty list.
C39_HashIndexTracksIds ==
    /\ \A key \in IndexKeys :
        /\ IndexLookup(call.ret.index, key) = RecordedUnder(key)
        /\ RecordedUnder(key) = {} <=> HashKey(key) \notin DOMAIN call.ret.index
        /\ \A id \in IndexIds \ RecordedUnder(key) :
                IndexRemove(call.ret.index, key, id) = call.ret.index
    /\ call.op = "lookup" => call.ret.found = RecordedUnder(call.args[1])
    /\ \A k \in DOMAIN call.ret.index : call.ret.index[k] # {}

\* C39 witness: the last id of a key has just been removed while another key
\* still holds two ids.
C39_Witness ==
    /\ call.op = "remove"
    /\ HashKey(call.args[1]) \notin DOMAIN call.ret.index
    /\ \E key \in IndexKeys : Cardinality(RecordedUnder(key)) = 2

====
